---------------------------- MODULE Spec2Model ----------------------------
(***************************************************************************)
(* MindSQL: the SQL extractor (validator.py, extract_sql), the schema     *)
(* validator (validate_sql_schema), the plot validator                     *)
(* (validate_plot_sql), the schema synchronizer (schema_manager.py,        *)
(* update_schema_context, with database.py, perform_connection) and the    *)
(* shell with its handlers (main.py) and the completer of the prompt       *)
(* (sql_completer.py), each as a state machine.                            *)
(*                                                                         *)
(* Strings are sequences of one-character strings, so that strip, upper,   *)
(* startswith, split, join and the two regular expressions of extract_sql  *)
(* are computed character by character as Python computes them.            *)
(***************************************************************************)
EXTENDS Integers, Sequences, FiniteSets, TLC

VARIABLES
    text,        \* extract_sql: the argument `text`
    ret,         \* extract_sql: the returned value (Pending before the call)
    sql_code,    \* validate_sql_schema: the argument `sql_code`
    schema_map,  \* validate_sql_schema: the argument `schema_map`
    verdict,     \* validate_sql_schema: "pending", "True" or "False"
    console,     \* validate_sql_schema: the diagnostics printed (console.print)
    plot_sql,    \* validate_plot_sql: the argument `sql`
    plot_ret,    \* validate_plot_sql: "pending", "True" or "False"
    database,    \* what the inspector reports: the tables, in database order
    SCHEMA_MAP,  \* config.SCHEMA_MAP: the contents of the dict
    map_object,  \* config.SCHEMA_MAP: the dict object the name is bound to
    schema_file, \* the contents of config.SCHEMA_FILE
    sync_pc,     \* update_schema_context: the statement it is at ("idle": not running)
    table_index, \* update_schema_context: the position of the table loop
    schema_text, \* update_schema_context: the local schema_text
    dynamic_schema_map, \* update_schema_context: the local dynamic_schema_map
    sync_outcome,       \* how the last call ended: "returned", "write raised", ...
    map_before,  \* history: the Schema Map when the call was entered
    returned,    \* history: one snapshot per call that returned
    observed,    \* history: what the readers of config.SCHEMA_MAP saw
    engine,      \* shell: the local engine, "None" or "engine"
    shell_pc,    \* shell: "prompt" (reading a command) or the handler whose loop runs
    attempt,     \* the handlers: the loop variable attempt
    shell_out,   \* shell: what the last step reported on the console
    model_calls, \* history: the calls of the model in the retry loop of the
                 \* last command (0: the command has no such loop)
    feedback,    \* history: the error feedbacks appended to msgs in that loop
    executed,    \* history: the last call of execute_sql
    ddl_pending, \* history: DDL was executed and update_schema_context not called since
    db_url,      \* shell: the local db_url ("None": no URL)
    schema_context, \* shell: the local schema_context
    db_url_file, \* the contents of config.DB_URL_FILE ("None": no file, "": empty)
    document,    \* get_completions: document.text_before_cursor
    completions  \* get_completions: what the generator did (NotAsked before the call)

vars ==
    <<text, ret, sql_code, schema_map, verdict, console, plot_sql, plot_ret,
      database, SCHEMA_MAP, map_object, schema_file,
      sync_pc, table_index, schema_text, dynamic_schema_map, sync_outcome,
      map_before, returned, observed,
      engine, shell_pc, attempt, shell_out, model_calls, feedback, executed,
      ddl_pending, db_url, schema_context, db_url_file, document, completions>>

extractVars == <<text, ret>>

validateVars == <<sql_code, schema_map, verdict, console>>

plotVars == <<plot_sql, plot_ret>>

completeVars == <<document, completions>>

\* the arguments and results of the three functions of validator.py and of
\* get_completions
pureVars == <<extractVars, validateVars, plotVars, completeVars>>

configVars == <<database, SCHEMA_MAP, map_object, schema_file>>

syncVars ==
    <<sync_pc, table_index, schema_text, dynamic_schema_map, sync_outcome,
      map_before, returned, observed>>

shellVars ==
    <<engine, shell_pc, attempt, shell_out, model_calls, feedback, executed,
      ddl_pending>>

\* what a connection sets besides the engine and config
sessionVars == <<db_url, schema_context, db_url_file>>

---------------------------------------------------------------------------
(* Bounds of the model *)

\* extract_sql's input texts are concatenations of at most MaxChunks chunks
MaxChunks == 5

\* a statement references at most MaxTables tables
MaxTables == 2

\* a statement holds at most MaxCols column references
MaxCols == 2

---------------------------------------------------------------------------
(* Python string primitives *)

\* str.isspace for the characters of the model (str.strip and regex \s)
IsSpace(c) == c \in {" ", "\n", "\t"}

\* str.upper, one character
UpperChar(c) ==
    CASE c = "s" -> "S"
      [] c = "q" -> "Q"
      [] c = "l" -> "L"
      [] c = "e" -> "E"
      [] c = "t" -> "T"
      [] c = "x" -> "X"
      [] c = "d" -> "D"
      [] c = "r" -> "R"
      [] c = "o" -> "O"
      [] c = "p" -> "P"
      [] c = "c" -> "C"
      [] c = "u" -> "U"
      [] c = "m" -> "M"
      [] c = "f" -> "F"
      [] OTHER -> c

\* str.upper
Upper(s) == [i \in 1..Len(s) |-> UpperChar(s[i])]

\* str.startswith(prefix)
StartsWith(s, p) == Len(p) <= Len(s) /\ SubSeq(s, 1, Len(p)) = p

\* str.startswith(tuple of prefixes)
StartsWithAny(s, ps) == \E p \in ps : StartsWith(s, p)

\* number of whitespace characters of s from position i on (a greedy \s*)
RECURSIVE WsRun(_, _)
WsRun(s, i) ==
    IF i <= Len(s) /\ IsSpace(s[i]) THEN 1 + WsRun(s, i + 1) ELSE 0

\* number of whitespace characters of s that end at position i
RECURSIVE WsRunBack(_, _)
WsRunBack(s, i) ==
    IF i >= 1 /\ IsSpace(s[i]) THEN 1 + WsRunBack(s, i - 1) ELSE 0

\* str.strip()
Strip(s) ==
    LET a == WsRun(s, 1)
    IN  IF a = Len(s) THEN <<>>
        ELSE SubSeq(s, a + 1, Len(s) - WsRunBack(s, Len(s)))

\* str.split(sep) for a one-character separator: always at least one segment
RECURSIVE SplitFrom(_, _, _, _)
SplitFrom(s, sep, i, cur) ==
    IF i > Len(s) THEN <<cur>>
    ELSE IF s[i] = sep THEN <<cur>> \o SplitFrom(s, sep, i + 1, <<>>)
    ELSE SplitFrom(s, sep, i + 1, Append(cur, s[i]))

Split(s, sep) == SplitFrom(s, sep, 1, <<>>)

\* sep.join(parts)
RECURSIVE Join(_, _)
Join(parts, sep) ==
    IF parts = <<>> THEN <<>>
    ELSE IF Len(parts) = 1 THEN parts[1]
    ELSE parts[1] \o sep \o Join(Tail(parts), sep)

---------------------------------------------------------------------------
(* extract_sql *)

\* the value None, and a returned string
None == [kind |-> "None", str |-> <<>>]

Str(s) == [kind |-> "str", str |-> s]

\* before extract_sql has been called
Pending == [kind |-> "pending", str |-> <<>>]

\* A TLA+ string cannot hold a backquote: the character ` is written "'".
Bq == "'"

\* the literal ``` of both regular expressions
Fence == <<Bq, Bq, Bq>>

\* the literal ```sql of the first regular expression, upper-cased
FenceSqlUpper == <<Bq, Bq, Bq, "S", "Q", "L">>

\* the literal s occurs in t at position i; with re.IGNORECASE when ic
LiteralAt(t, i, lit, ic) ==
    /\ i >= 1
    /\ i + Len(lit) - 1 <= Len(t)
    /\ LET got == SubSeq(t, i, i + Len(lit) - 1)
       IN  IF ic THEN Upper(got) = Upper(lit) ELSE got = lit

\* the lazy group (.*?) followed by \s*```: the first end position e >= from
\* such that a whitespace run and then ``` follow; 0 when there is none.
\* (re.DOTALL: the group takes any character.)
RECURSIVE LazyEnd(_, _)
LazyEnd(t, e) ==
    IF e > Len(t) + 1 THEN 0
    ELSE IF LiteralAt(t, e + WsRun(t, e), Fence, FALSE) THEN e
    ELSE LazyEnd(t, e + 1)

\* re.search of  lit \s* (.*?) \s* ```  in t from position i on: the leftmost
\* start; the first \s* is greedy (shortening it never helps: the characters it
\* would give back are whitespace, which the DOTALL group takes as well).
\* The result is [found, group]: match.group(1).
RECURSIVE SearchFrom(_, _, _, _)
SearchFrom(t, i, lit, ic) ==
    IF i > Len(t) THEN [found |-> FALSE, group |-> <<>>]
    ELSE IF LiteralAt(t, i, lit, ic)
         THEN LET s == i + Len(lit) + WsRun(t, i + Len(lit))
                  e == LazyEnd(t, s)
              IN  IF e # 0 THEN [found |-> TRUE, group |-> SubSeq(t, s, e - 1)]
                  ELSE SearchFrom(t, i + 1, lit, ic)
    ELSE SearchFrom(t, i + 1, lit, ic)

\* faulty variant: the tag is matched without re.IGNORECASE
SearchSqlFence_CaseSensitive(t) ==
    SearchFrom(t, 1, <<Bq, Bq, Bq, "s", "q", "l">>, FALSE)

\* re.search(r"```sql\s*(.*?)\s*```", text, re.DOTALL | re.IGNORECASE)
SearchSqlFence(t) == SearchFrom(t, 1, FenceSqlUpper, TRUE)

\* re.search(r"```\s*(.*?)\s*```", text, re.DOTALL)
SearchFence(t) == SearchFrom(t, 1, Fence, FALSE)

\* the tuple `keywords` of extract_sql
keywords ==
    { <<"S","E","L","E","C","T">>, <<"I","N","S","E","R","T">>,
      <<"U","P","D","A","T","E">>, <<"D","E","L","E","T","E">>,
      <<"C","R","E","A","T","E">>, <<"D","R","O","P">>, <<"S","E","T">>,
      <<"A","L","T","E","R">>, <<"B","E","G","I","N">>, <<"W","I","T","H">>,
      <<"S","H","O","W">>, <<"D","E","S","C","R","I","B","E">> }

\* faulty variant: the loop stops after the first statement it keeps
valid_statements_FirstOnly(clean_text) ==
    LET segs == Split(clean_text, ";")
        stripped == [i \in 1..Len(segs) |-> Strip(segs[i])]
        kept == SelectSeq(stripped,
                    LAMBDA stmt : stmt # <<>> /\ StartsWithAny(Upper(stmt), keywords))
    IN  IF kept = <<>> THEN <<>> ELSE <<kept[1]>>

\* faulty variant: the loop keeps every non-empty segment, keyword or not
valid_statements_Unfiltered(clean_text) ==
    LET segs == Split(clean_text, ";")
        stripped == [i \in 1..Len(segs) |-> Strip(segs[i])]
    IN  SelectSeq(stripped, LAMBDA stmt : stmt # <<>>)

\* faulty variant: stmt.startswith(keywords) without upper()
valid_statements_CaseSensitive(clean_text) ==
    LET segs == Split(clean_text, ";")
        stripped == [i \in 1..Len(segs) |-> Strip(segs[i])]
    IN  SelectSeq(stripped,
                  LAMBDA stmt : stmt # <<>> /\ StartsWithAny(stmt, keywords))

\* faulty variant: the segment is tested stripped but appended as it stands
valid_statements_Unstripped(clean_text) ==
    SelectSeq(Split(clean_text, ";"),
              LAMBDA stmt : Strip(stmt) # <<>> /\ StartsWithAny(Upper(Strip(stmt)), keywords))

\* the loop over clean_text.split(';'): the stripped, non-empty segments that
\* start with a keyword, in order
valid_statements(clean_text) ==
    LET segs == Split(clean_text, ";")
        stripped == [i \in 1..Len(segs) |-> Strip(segs[i])]
    IN  SelectSeq(stripped,
                  LAMBDA stmt : stmt # <<>> /\ StartsWithAny(Upper(stmt), keywords))

\* faulty variant: text that starts with no keyword is returned as it is
extract_raw_PassThrough(t) ==
    LET clean_text == Strip(t)
    IN  IF StartsWithAny(Upper(clean_text), keywords)
        THEN Str(Join(valid_statements(clean_text), <<";", "\n">>) \o <<";">>)
        ELSE Str(clean_text)

\* step 2 of extract_sql: raw statements
extract_raw(t) ==
    LET clean_text == Strip(t)
    IN  IF StartsWithAny(Upper(clean_text), keywords)
        THEN LET valid == valid_statements(clean_text)
             IN  IF valid # <<>>
                 THEN Str(Join(valid, <<";", "\n">>) \o <<";">>)
                 ELSE Str(clean_text)
        ELSE None

\* extract_sql(text)
extract_sql(t) ==
    LET m1 == SearchSqlFence(t)
        m2 == SearchFence(t)
    IN  IF m1.found THEN Str(Strip(m1.group))
        ELSE IF m2.found THEN Str(Strip(m2.group))
        ELSE extract_raw(t)

---------------------------------------------------------------------------
(* Inputs of extract_sql *)

Chunks ==
    { Fence, <<"s","q","l">>, <<"S","Q","L">>, <<" ">>, <<";">>,
      <<"s","e","t">>, <<"x">> }

RECURSIVE Flatten(_)
Flatten(cs) == IF cs = <<>> THEN <<>> ELSE cs[1] \o Flatten(Tail(cs))

Texts == { Flatten(cs) : cs \in UNION { [1..n -> Chunks] : n \in 0..MaxChunks } }

---------------------------------------------------------------------------
(* validate_sql_schema *)

(* A SQL statement is its text (the leading word and what follows it, the   *)
(* rest of the statement standing as the one character "x") together with  *)
(* what sql_metadata.Parser makes of it: the tables and the column          *)
(* references it reports, or the property at which it raises.  A column     *)
(* reference is a sequence of tokens: names and the characters ".", "(",    *)
(* ")" and "*", which no name contains.                                     *)

\* the tuple `bypass_keywords` of validate_sql_schema
bypass_keywords ==
    { <<"S","H","O","W"," ">>, <<"D","E","S","C","R","I","B","E"," ">>,
      <<"C","R","E","A","T","E"," ">>, <<"D","R","O","P"," ">>,
      <<"A","L","T","E","R"," ">> }

\* faulty variant: the text is upper-cased but not stripped
FastPass_NoStrip(sql) == StartsWithAny(Upper(sql.text), bypass_keywords)

\* upper_sql.startswith(bypass_keywords), upper_sql = sql_code.strip().upper()
FastPass(sql) == StartsWithAny(Upper(Strip(sql.text)), bypass_keywords)

\* Python's  x in s  for a string s of tokens
HasTok(ref, tok) == \E i \in 1..Len(ref) : ref[i] = tok

\* the index of the first "." of a reference that holds one
FirstDot(ref) ==
    CHOOSE k \in 1..Len(ref) : ref[k] = "." /\ \A j \in 1..(k - 1) : ref[j] # "."

\* table_part, col_part = col_ref.split(".", 1)
table_part(ref) == SubSeq(ref, 1, FirstDot(ref) - 1)

col_part(ref) == SubSeq(ref, FirstDot(ref) + 1, Len(ref))

\* Python's  name in schema_map  (a dict: membership among the keys)
InMap(name, map) == Len(name) = 1 /\ name[1] \in DOMAIN map

\* Python's  name in schema_map[t]: among the elements of a list of column
\* names, but among the KEYS of a {columns, foreign_keys} dict
InValue(name, value) ==
    /\ Len(name) = 1
    /\ IF value.shape = "list"
       THEN \E i \in 1..Len(value.columns) : value.columns[i] = name[1]
       ELSE name[1] \in {"columns", "foreign_keys"}

\* the diagnostics validate_sql_schema prints
TableError(t) == [kind |-> "table", what |-> <<t>>]

ColumnError(ref) == [kind |-> "column", what |-> ref]

ParserError == [kind |-> "parser", what |-> <<>>]

\* faulty variant: a qualifier that is no key of the map fails the reference
ColumnFails_UnknownQualifier(col_ref, sql_tables, map) ==
    IF HasTok(col_ref, "(") \/ HasTok(col_ref, "*") THEN FALSE
    ELSE IF HasTok(col_ref, ".")
         THEN \/ ~InMap(table_part(col_ref), map)
              \/ ~InValue(col_part(col_ref), map[table_part(col_ref)[1]])
         ELSE ~(\E i \in 1..Len(sql_tables) :
                   /\ sql_tables[i] \in DOMAIN map
                   /\ InValue(col_ref, map[sql_tables[i]]))

\* the body of the loop over sql_columns: the reference fails validation
ColumnFails(col_ref, sql_tables, map) ==
    IF HasTok(col_ref, "(") \/ HasTok(col_ref, "*") THEN FALSE
    ELSE IF HasTok(col_ref, ".")
         THEN /\ InMap(table_part(col_ref), map)
              /\ ~InValue(col_part(col_ref), map[table_part(col_ref)[1]])
         ELSE ~(\E i \in 1..Len(sql_tables) :
                   /\ sql_tables[i] \in DOMAIN map
                   /\ InValue(col_ref, map[sql_tables[i]]))

\* faulty variant: the lenient policy: a warning, return True
OnParserException_Lenient == [ret |-> TRUE, out |-> <<ParserError>>]

\* the except clause: "Parser Error", return False
OnParserException == [ret |-> FALSE, out |-> <<ParserError>>]

\* faulty variant: the table loop looks at the first table only
MissingTables_FirstOnly(sql_tables, map) ==
    { i \in 1..Len(sql_tables) : i = 1 /\ sql_tables[i] \notin DOMAIN map }

\* the positions of the tables of sql_tables that are no key of schema_map
MissingTables(sql_tables, map) ==
    { i \in 1..Len(sql_tables) : sql_tables[i] \notin DOMAIN map }

\* the try block of validate_sql_schema
ValidateParsed(sql, map) ==
    IF sql.parse = "tables_raise" THEN OnParserException
    ELSE LET sql_tables == sql.tables
             missing == MissingTables(sql_tables, map)
         IN  IF missing # {}
             THEN LET i == CHOOSE j \in missing : \A k \in missing : j <= k
                  IN  [ret |-> FALSE, out |-> <<TableError(sql_tables[i])>>]
             ELSE IF sql.parse = "columns_raise" THEN OnParserException
             ELSE LET sql_columns == sql.columns
                      failing == { i \in 1..Len(sql_columns) :
                                     ColumnFails(sql_columns[i], sql_tables, map) }
                  IN  IF failing # {}
                      THEN LET i == CHOOSE j \in failing : \A k \in failing : j <= k
                           IN  [ret |-> FALSE, out |-> <<ColumnError(sql_columns[i])>>]
                      ELSE [ret |-> TRUE, out |-> <<>>]

\* validate_sql_schema(sql_code, schema_map): the verdict and what it prints
validate_sql_schema(sql, map) ==
    IF FastPass(sql) THEN [ret |-> TRUE, out |-> <<>>]
    ELSE ValidateParsed(sql, map)

---------------------------------------------------------------------------
(* Inputs of validate_sql_schema *)

\* statement texts: a first word, what follows it, "x" for the rest
SqlTexts ==
    { <<"S","E","L","E","C","T"," ","x">>,
      <<"C","R","E","A","T","E"," ","x">>,
      <<"C","R","E","A","T","E","\n","x">>,
      <<"D","R","O","P"," ","x">>,
      <<" ","d","r","o","p"," ","x">>,
      <<"D","R","O","P"," ">>,
      <<"A","L","T","E","R"," ","x">>,
      <<"A","L","T","E","R">>,
      <<"S","H","O","W"," ","x">>,
      <<"S","H","O","W","x">>,
      <<"D","E","S","C","R","I","B","E"," ","x">> }

TableNames == {"users", "orders", "ghost"}

ColRefs ==
    { <<"id">>, <<"name">>, <<"columns">>,
      <<"users", ".", "id">>, <<"users", ".", "columns">>,
      <<"orders", ".", "name">>, <<"u", ".", "id">>,
      <<"*">>, <<"count", "(", "id", ")">> }

SeqsUpTo(S, n) == UNION { [1..k -> S] : k \in 0..n }

ParseOutcomes == {"ok", "tables_raise", "columns_raise"}

SqlCodes ==
    [ text : SqlTexts, tables : SeqsUpTo(TableNames, MaxTables),
      columns : SeqsUpTo(ColRefs, MaxCols), parse : ParseOutcomes ]

\* a Schema Map value as update_schema_context builds it: the list col_names
PlainList(cols) == [shape |-> "list", columns |-> cols, foreign_keys |-> <<>>]

\* a Schema Map value as load_schema_map builds it: {columns, foreign_keys}
Descriptor(cols, fks) == [shape |-> "dict", columns |-> cols, foreign_keys |-> fks]

UsersCols == <<"id", "name">>

OrdersCols == <<"id", "user_id">>

OrdersFks ==
    << [child_columns |-> <<"user_id">>, parent_table |-> "users",
        parent_columns |-> <<"id">>] >>

\* config.SCHEMA_MAP = {} at import
EmptyMap == [t \in {} |-> PlainList(<<>>)]

\* the maps update_schema_context installs
ListMaps ==
    { EmptyMap,
      [t \in {"users", "orders"} |->
          IF t = "users" THEN PlainList(UsersCols) ELSE PlainList(OrdersCols)] }

\* the maps perform_connection installs (config.SCHEMA_MAP = load_schema_map(engine))
DescriptorMaps ==
    { [t \in {"users", "orders"} |->
          IF t = "users" THEN Descriptor(UsersCols, <<>>)
          ELSE Descriptor(OrdersCols, OrdersFks)] }

SchemaMaps == ListMaps \cup DescriptorMaps

---------------------------------------------------------------------------
(* The parts of the state a state machine leaves alone *)

\* validate_plot_sql is not called
IdlePlot ==
    /\ plot_sql = <<>>
    /\ plot_ret = "pending"

\* no database is connected: the Schema Map is the dict of config.py, there
\* is no description file
IdleConfig ==
    /\ database = <<>>
    /\ SCHEMA_MAP = [t \in {} |-> <<>>]
    /\ map_object = 0
    /\ schema_file = <<>>

\* update_schema_context is not called
IdleSync ==
    /\ sync_pc = "idle"
    /\ table_index = 0
    /\ schema_text = <<>>
    /\ dynamic_schema_map = [t \in {} |-> <<>>]
    /\ sync_outcome = "none"
    /\ map_before = [t \in {} |-> <<>>]
    /\ returned = [kind |-> "none"]
    /\ observed = [reader |-> "none"]

\* the shell is not running
IdleShell ==
    /\ engine = "None"
    /\ shell_pc = "prompt"
    /\ attempt = 0
    /\ shell_out = "none"
    /\ model_calls = 0
    /\ feedback = 0
    /\ executed = [handler |-> "none"]
    /\ ddl_pending = FALSE

\* no connection has been made and none was saved
IdleSession ==
    /\ db_url = "None"
    /\ schema_context = <<>>
    /\ db_url_file = "None"

\* the prompt asks for no completion
IdleComplete ==
    /\ document = <<>>
    /\ completions = [kind |-> "pending", exc |-> "", suggestions |-> {}]

---------------------------------------------------------------------------
(* The extractor's state machine *)

IdleValidate ==
    /\ sql_code = [text |-> <<>>, tables |-> <<>>, columns |-> <<>>, parse |-> "ok"]
    /\ schema_map = EmptyMap
    /\ verdict = "pending"
    /\ console = <<>>

InitExtract ==
    /\ text \in Texts
    /\ ret = Pending
    /\ IdleValidate
    /\ IdlePlot
    /\ IdleConfig
    /\ IdleSync
    /\ IdleShell
    /\ IdleSession
    /\ IdleComplete

\* a caller calls extract_sql(text)
ExtractSql ==
    /\ ret = Pending
    /\ ret' = extract_sql(text)
    /\ UNCHANGED <<text, validateVars, plotVars, completeVars, configVars, syncVars, shellVars, sessionVars>>

NextExtract == ExtractSql

SpecExtract == InitExtract /\ [][NextExtract]_vars

---------------------------------------------------------------------------
(* The validator's state machine *)

IdleExtract ==
    /\ text = <<>>
    /\ ret = Pending

InitValidate ==
    /\ sql_code \in SqlCodes
    /\ schema_map \in SchemaMaps
    /\ verdict = "pending"
    /\ console = <<>>
    /\ IdleExtract
    /\ IdlePlot
    /\ IdleConfig
    /\ IdleSync
    /\ IdleShell
    /\ IdleSession
    /\ IdleComplete

\* a caller calls validate_sql_schema(sql_code, schema_map)
ValidateSqlSchema ==
    /\ verdict = "pending"
    /\ LET r == validate_sql_schema(sql_code, schema_map)
       IN  /\ verdict' = IF r.ret THEN "True" ELSE "False"
           /\ console' = console \o r.out
    /\ UNCHANGED <<sql_code, schema_map, extractVars, plotVars, completeVars, configVars, syncVars, shellVars, sessionVars>>

NextValidate == ValidateSqlSchema

SpecValidate == InitValidate /\ [][NextValidate]_vars

---------------------------------------------------------------------------
(* validate_plot_sql *)

\* str.find(lit, i), one-based: the first position from i on at which lit
\* occurs in s, 0 when there is none
RECURSIVE FindFrom(_, _, _)
FindFrom(s, lit, i) ==
    IF i + Len(lit) - 1 > Len(s) THEN 0
    ELSE IF SubSeq(s, i, i + Len(lit) - 1) = lit THEN i
    ELSE FindFrom(s, lit, i + 1)

\* lit in s
Contains(s, lit) == FindFrom(s, lit, 1) # 0

\* s.split(lit)[0]: the text before the first occurrence of lit
BeforeFirst(s, lit) ==
    LET p == FindFrom(s, lit, 1)
    IN  IF p = 0 THEN s ELSE SubSeq(s, 1, p - 1)

\* s.replace(lit, ""): the occurrences of lit, found left to right, removed
RECURSIVE Remove(_, _, _)
Remove(s, lit, i) ==
    IF i > Len(s) THEN <<>>
    ELSE IF i + Len(lit) - 1 <= Len(s) /\ SubSeq(s, i, i + Len(lit) - 1) = lit
         THEN Remove(s, lit, i + Len(lit))
         ELSE <<s[i]>> \o Remove(s, lit, i + 1)

SELECT == <<"S","E","L","E","C","T">>

FROM == <<"F","R","O","M">>

\* the aggregate function names of the value column
aggregates ==
    { <<"C","O","U","N","T">>, <<"S","U","M">>, <<"A","V","G">>,
      <<"M","I","N">>, <<"M","A","X">> }

\* faulty variant: an aggregate in either column will do
validate_plot_sql_AnyColumn(sql) ==
    LET sql_upper == Upper(sql)
    IN  IF ~StartsWith(sql_upper, SELECT) THEN FALSE
        ELSE LET select_part == BeforeFirst(sql_upper, FROM)
                 columns == Split(Remove(select_part, SELECT, 1), ",")
             IN  IF Len(columns) # 2 THEN FALSE
                 ELSE \E k \in aggregates : Contains(select_part, k)

\* validate_plot_sql(sql)
validate_plot_sql(sql) ==
    LET sql_upper == Upper(sql)
    IN  IF ~StartsWith(sql_upper, SELECT) THEN FALSE
        ELSE LET select_part == BeforeFirst(sql_upper, FROM)
                 columns == Split(Remove(select_part, SELECT, 1), ",")
             IN  IF Len(columns) # 2 THEN FALSE
                 ELSE IF ~(\E k \in aggregates : Contains(columns[2], k)) THEN FALSE
                 ELSE TRUE

---------------------------------------------------------------------------
(* Inputs of validate_plot_sql *)

\* a chart statement has at most MaxExprs expressions before its FROM
MaxExprs == 3

\* how the statement starts
PlotHeads ==
    { <<"S","E","L","E","C","T"," ">>,
      <<"s","e","l","e","c","t"," ">>,
      <<" ","S","E","L","E","C","T"," ">>,
      <<"I","N","S","E","R","T"," ">> }

\* the expressions of the select list: a column, aggregates in both letter
\* cases, a column whose name holds the letters of FROM, nothing at all
PlotExprs ==
    { <<"x">>,
      <<"S","U","M","(","x",")">>,
      <<"s","u","m","(","x",")">>,
      <<"f","r","o","m","_","x">>,
      <<>> }

\* the rest of the statement: none, a FROM clause, a GROUP BY with commas
PlotTails ==
    { <<>>,
      <<" ","F","R","O","M"," ","t">>,
      <<" ","f","r","o","m"," ","t">>,
      <<" ","F","R","O","M"," ","t"," ","G","R","O","U","P"," ","B","Y"," ","x",",","x">> }

PlotSqls ==
    { h \o Join(es, <<",">>) \o t :
        h \in PlotHeads, es \in SeqsUpTo(PlotExprs, MaxExprs), t \in PlotTails }

---------------------------------------------------------------------------
(* The plot-shape validator's state machine *)

InitPlot ==
    /\ plot_sql \in PlotSqls
    /\ plot_ret = "pending"
    /\ IdleExtract
    /\ IdleValidate
    /\ IdleConfig
    /\ IdleSync
    /\ IdleShell
    /\ IdleSession
    /\ IdleComplete

\* a caller calls validate_plot_sql(plot_sql)
ValidatePlotSql ==
    /\ plot_ret = "pending"
    /\ plot_ret' = IF validate_plot_sql(plot_sql) THEN "True" ELSE "False"
    /\ UNCHANGED <<plot_sql, extractVars, validateVars, completeVars, configVars, syncVars, shellVars, sessionVars>>

NextPlot == ValidatePlotSql

SpecPlot == InitPlot /\ [][NextPlot]_vars

---------------------------------------------------------------------------
(* The database as the SQLAlchemy inspector reports it *)

(* A database is the sequence of its tables in the order get_table_names    *)
(* lists them; a table is its name, its columns (name and type, in the      *)
(* order get_columns lists them), its primary key and its foreign keys.     *)

UsersTable ==
    [name |-> "users",
     columns |-> << [name |-> "id", type |-> "INTEGER"],
                    [name |-> "name", type |-> "TEXT"] >>,
     pk |-> <<"id">>,
     fks |-> <<>>]

OrdersTable ==
    [name |-> "orders",
     columns |-> << [name |-> "id", type |-> "INTEGER"],
                    [name |-> "user_id", type |-> "INTEGER"] >>,
     pk |-> <<"id">>,
     fks |-> << [constrained_columns |-> <<"user_id">>,
                 referred_table |-> "users",
                 referred_columns |-> <<"id">>] >>]

\* users after ALTER TABLE: other columns, another order, no primary key
UsersAltered ==
    [name |-> "users",
     columns |-> << [name |-> "name", type |-> "TEXT"],
                    [name |-> "id", type |-> "INTEGER"],
                    [name |-> "email", type |-> "TEXT"] >>,
     pk |-> <<>>,
     fks |-> <<>>]

\* a table that only the third database has
ItemsTable ==
    [name |-> "items",
     columns |-> << [name |-> "id", type |-> "INTEGER"] >>,
     pk |-> <<"id">>,
     fks |-> <<>>]

Databases ==
    { <<>>,
      <<UsersTable, OrdersTable>>,
      <<ItemsTable, UsersAltered>> }

\* inspector.get_table_names()
get_table_names(db) == [i \in 1..Len(db) |-> db[i].name]

\* [c["name"] for c in inspector.get_columns(table)]
col_names(table) == [i \in 1..Len(table.columns) |-> table.columns[i].name]

---------------------------------------------------------------------------
(* update_schema_context: the text and the map it builds *)

(* A text is the sequence of the strings it is concatenated from. *)

\* ', '.join(names)
CommaJoin(names) == Join([i \in 1..Len(names) |-> <<names[i]>>], <<", ">>)

\* the lines "    name type," of the columns, the last without the comma
RECURSIVE ColumnLines(_, _)
ColumnLines(columns, i) ==
    IF i > Len(columns) THEN <<>>
    ELSE <<"    ", columns[i].name, " ", columns[i].type>>
         \o (IF i < Len(columns) THEN <<",">> ELSE <<>>)
         \o <<"\n">>
         \o ColumnLines(columns, i + 1)

\* one element of fk_strs
fk_str(fk) ==
    <<"(">> \o CommaJoin(fk.constrained_columns)
    \o <<") references ", fk.referred_table, "(">>
    \o CommaJoin(fk.referred_columns) \o <<")">>

\* what one pass of the loop over the tables appends to schema_text
TableText(table) ==
    <<"CREATE TABLE ", table.name, " (\n">>
    \o ColumnLines(table.columns, 1)
    \o <<");\n">>
    \o (IF table.pk # <<>>
        THEN <<"-- Primary Keys: ">> \o CommaJoin(table.pk) \o <<"\n">>
        ELSE <<>>)
    \o (IF table.fks # <<>>
        THEN <<"-- Foreign Keys: ">>
             \o Join([i \in 1..Len(table.fks) |-> fk_str(table.fks[i])], <<", ">>)
             \o <<"\n">>
        ELSE <<>>)
    \o <<"\n">>

\* dict[key] = value
SetItem(map, key, value) ==
    [t \in DOMAIN map \cup {key} |-> IF t = key THEN value ELSE map[t]]

\* faulty variant: the dict keeps its entries
clear_Keep(map) == map

\* dict.clear()
clear(map) == EmptyMap

\* dict.update(other)
update(map, other) ==
    [t \in DOMAIN map \cup DOMAIN other |-> IF t \in DOMAIN other THEN other[t] ELSE map[t]]

\* faulty variant: open(file, 'a') keeps what the file holds
open_a(contents) == contents

\* open(file, 'w') truncates the file
open_w(contents) == <<>>

---------------------------------------------------------------------------
(* perform_connection: the file and the map it installs *)

\* load_schema_map(engine)
load_schema_map(db) ==
    [t \in { db[i].name : i \in 1..Len(db) } |->
        LET table == db[CHOOSE i \in 1..Len(db) : db[i].name = t]
        IN  Descriptor(col_names(table),
                       [k \in 1..Len(table.fks) |->
                          [child_columns |-> table.fks[k].constrained_columns,
                           parent_table |-> table.fks[k].referred_table,
                           parent_columns |-> table.fks[k].referred_columns]])]

\* the column definitions "    name type" joined by ",\n"
col_defs(columns) ==
    Join([i \in 1..Len(columns) |-> <<"    ", columns[i].name, " ", columns[i].type>>],
         <<",\n">>)

\* the lines "-- Foreign Key: (...) -> parent(...)" of a table (the arrow of
\* the source is written -> here)
RECURSIVE ForeignKeyLines(_, _)
ForeignKeyLines(fks, i) ==
    IF i > Len(fks) THEN <<>>
    ELSE <<"-- Foreign Key: (">> \o CommaJoin(fks[i].constrained_columns)
         \o <<") -> ", fks[i].referred_table, "(">>
         \o CommaJoin(fks[i].referred_columns) \o <<")\n">>
         \o ForeignKeyLines(fks, i + 1)

\* what _write_schema_file writes, from table i on
RECURSIVE write_schema_file(_, _)
write_schema_file(db, i) ==
    IF i > Len(db) THEN <<>>
    ELSE <<"CREATE TABLE ", db[i].name, " (\n">>
         \o col_defs(db[i].columns)
         \o <<"\n);\n">>
         \o (IF db[i].pk # <<>>
             THEN <<"-- Primary Keys: ">> \o CommaJoin(db[i].pk) \o <<"\n">>
             ELSE <<>>)
         \o ForeignKeyLines(db[i].fks, 1)
         \o <<"\n">>
         \o write_schema_file(db, i + 1)

---------------------------------------------------------------------------
(* The synchronizer's state machine *)

\* at most MaxConnects connections succeed
MaxConnects == 2

InitSync ==
    /\ database \in Databases
    /\ SCHEMA_MAP = EmptyMap
    /\ map_object = 0
    /\ schema_file = <<>>
    /\ IdleSync
    /\ IdleExtract
    /\ IdleValidate
    /\ IdlePlot
    /\ IdleShell
    /\ IdleSession
    /\ IdleComplete

\* the entry of update_schema_context: the locals are fresh
Enter(map) ==
    /\ sync_pc' = "listing"
    /\ table_index' = 1
    /\ schema_text' = <<>>
    /\ dynamic_schema_map' = EmptyMap
    /\ sync_outcome' = "running"
    /\ map_before' = map

\* update_schema_context is left, the locals are gone
Leave(outcome) ==
    /\ sync_pc' = "idle"
    /\ table_index' = 0
    /\ schema_text' = <<>>
    /\ dynamic_schema_map' = EmptyMap
    /\ sync_outcome' = outcome

\* the shell calls update_schema_context after a statement it takes for DDL
CallAfterDdl ==
    /\ sync_pc = "idle"
    /\ Enter(SCHEMA_MAP)
    /\ UNCHANGED <<configVars, returned, observed>>
    /\ UNCHANGED <<pureVars, shellVars, sessionVars>>

\* the shell connects: perform_connection succeeds (it writes its own
\* description file unless the database is empty, and binds config.SCHEMA_MAP
\* to the dict of load_schema_map), then update_schema_context is called
ConnectAndCall ==
    /\ sync_pc = "idle"
    /\ map_object < MaxConnects
    /\ schema_file' = IF get_table_names(database) = <<>> THEN schema_file
                                                         ELSE write_schema_file(database, 1)
    /\ SCHEMA_MAP' = load_schema_map(database)
    /\ map_object' = map_object + 1
    /\ Enter(load_schema_map(database))
    /\ UNCHANGED <<database, returned, observed>>
    /\ UNCHANGED <<pureVars, shellVars, sessionVars>>

\* perform_connection fails: it returns (None, []) and nothing is called
ConnectFails ==
    /\ sync_pc = "idle"
    /\ sync_outcome # "not connected"
    /\ sync_outcome' = "not connected"
    /\ UNCHANGED <<configVars, sync_pc, table_index, schema_text, dynamic_schema_map,
                   map_before, returned, observed>>
    /\ UNCHANGED <<pureVars, shellVars, sessionVars>>

\* inspect(engine) and inspector.get_table_names() succeed
ListTables ==
    /\ sync_pc = "listing"
    /\ sync_pc' = IF get_table_names(database) = <<>> THEN "write" ELSE "table"
    /\ UNCHANGED <<configVars, table_index, schema_text, dynamic_schema_map,
                   sync_outcome, map_before, returned, observed>>
    /\ UNCHANGED <<pureVars, shellVars, sessionVars>>

\* one pass of the loop over the tables
ReadTable ==
    /\ sync_pc = "table"
    /\ LET table == database[table_index]
       IN  /\ schema_text' = schema_text \o TableText(table)
           /\ dynamic_schema_map' =
                  SetItem(dynamic_schema_map, table.name, PlainList(col_names(table)))
    /\ table_index' = table_index + 1
    /\ sync_pc' = IF table_index = Len(database) THEN "write" ELSE "table"
    /\ UNCHANGED <<configVars, sync_outcome, map_before, returned, observed>>
    /\ UNCHANGED <<pureVars, shellVars, sessionVars>>

\* the inspector raises: while listing the tables, or while reading the
\* columns, the primary key or the foreign keys of a table
InspectorRaises ==
    /\ sync_pc \in {"listing", "table"}
    /\ Leave("inspector raised")
    /\ UNCHANGED <<configVars, map_before, returned, observed>>
    /\ UNCHANGED <<pureVars, shellVars, sessionVars>>

\* with open(config.SCHEMA_FILE, 'w') as f: f.write(schema_text)
WriteFile ==
    /\ sync_pc = "write"
    /\ schema_file' = open_w(schema_file) \o schema_text
    /\ sync_pc' = "clear"
    /\ UNCHANGED <<database, SCHEMA_MAP, map_object, table_index, schema_text,
                   dynamic_schema_map, sync_outcome, map_before, returned, observed>>
    /\ UNCHANGED <<pureVars, shellVars, sessionVars>>

\* faulty variant: the map is cleared before the file is written
WriteFileRaises_MapCleared ==
    /\ sync_pc = "write"
    /\ \E contents \in {schema_file, open_w(schema_file)} : schema_file' = contents
    /\ SCHEMA_MAP' = clear(SCHEMA_MAP)
    /\ Leave("write raised")
    /\ UNCHANGED <<database, map_object, map_before, returned, observed>>
    /\ UNCHANGED <<pureVars, shellVars, sessionVars>>

\* open raises (the file is as it was) or write raises (the file is truncated)
WriteFileRaises ==
    /\ sync_pc = "write"
    /\ \E contents \in {schema_file, open_w(schema_file)} : schema_file' = contents
    /\ Leave("write raised")
    /\ UNCHANGED <<database, SCHEMA_MAP, map_object, map_before, returned, observed>>
    /\ UNCHANGED <<pureVars, shellVars, sessionVars>>

\* config.SCHEMA_MAP.clear()
Clear ==
    /\ sync_pc = "clear"
    /\ SCHEMA_MAP' = clear(SCHEMA_MAP)
    /\ sync_pc' = "update"
    /\ UNCHANGED <<database, map_object, schema_file, table_index, schema_text,
                   dynamic_schema_map, sync_outcome, map_before, returned, observed>>
    /\ UNCHANGED <<pureVars, shellVars, sessionVars>>

\* config.SCHEMA_MAP.update(dynamic_schema_map); return schema_text.  The
\* snapshot keeps what the call returned and left behind, and whether the
\* call before it returned against the same database.
UpdateAndReturn ==
    /\ sync_pc = "update"
    /\ SCHEMA_MAP' = update(SCHEMA_MAP, dynamic_schema_map)
    /\ Leave("returned")
    /\ returned' = [kind |-> "snapshot",
                    ret |-> schema_text,
                    file |-> schema_file,
                    map |-> SCHEMA_MAP',
                    db |-> database,
                    again |-> (returned.kind = "snapshot" /\ returned.db = database)]
    /\ UNCHANGED <<database, map_object, schema_file, map_before, observed>>
    /\ UNCHANGED <<pureVars, shellVars, sessionVars>>

\* a statement run by execute_sql changes the tables of the database
ChangeDatabase ==
    /\ sync_pc = "idle"
    /\ \E db \in Databases \ {database} : database' = db
    /\ UNCHANGED <<SCHEMA_MAP, map_object, schema_file, syncVars>>
    /\ UNCHANGED <<pureVars, shellVars, sessionVars>>

\* faulty variant: a reader in a thread of its own
ReaderMayRun_AnyTime == TRUE

\* the readers run in the thread of the shell: the completer inside
\* session.prompt, the validator inside a handler; update_schema_context is
\* called from that thread and is not running then
ReaderMayRun == sync_pc = "idle"

\* a reader reads config.SCHEMA_MAP: the completer (get_completions) or the
\* validator (validate_sql_schema(sql, config.SCHEMA_MAP)).  The observation
\* keeps the map read, the map the last call of update_schema_context was
\* entered with, and the map the last call that returned left behind.
ReadSchemaMap ==
    /\ ReaderMayRun
    /\ \E reader \in {"get_completions", "validate_sql_schema"} :
          observed' = [reader |-> reader,
                       map |-> SCHEMA_MAP,
                       old |-> map_before,
                       new |-> IF returned.kind = "snapshot" THEN returned.map
                                                             ELSE map_before]
    /\ UNCHANGED <<configVars, sync_pc, table_index, schema_text, dynamic_schema_map,
                   sync_outcome, map_before, returned>>
    /\ UNCHANGED <<pureVars, shellVars, sessionVars>>

NextSync ==
    \/ CallAfterDdl
    \/ ConnectAndCall
    \/ ConnectFails
    \/ ListTables
    \/ ReadTable
    \/ InspectorRaises
    \/ WriteFile
    \/ WriteFileRaises
    \/ Clear
    \/ UpdateAndReturn
    \/ ChangeDatabase
    \/ ReadSchemaMap

SpecSync == InitSync /\ [][NextSync]_vars

---------------------------------------------------------------------------
(* The shell: what the handlers of main.py compute *)

\* config.MAX_RETRIES
MAX_RETRIES == 3

CLARIFICATION_NEEDED ==
    <<"C","L","A","R","I","F","I","C","A","T","I","O","N","_","N","E","E",
      "D","E","D",":">>

SCHEMA_ANSWER ==
    <<"S","C","H","E","M","A","_","A","N","S","W","E","R",":">>

\* mindsql_start(messages), for the text ai_text the model answers with
mindsql_start(ai_text) ==
    IF StartsWithAny(Strip(ai_text), {CLARIFICATION_NEEDED, SCHEMA_ANSWER})
    THEN Strip(ai_text)
    ELSE LET sql == extract_sql(ai_text)
         IN  IF sql.kind = "str" /\ sql.str # <<>> THEN sql.str ELSE Strip(ai_text)

\* extract_sql(sql) or sql
extract_or(sql) ==
    LET r == extract_sql(sql)
    IN  IF r.kind = "str" /\ r.str # <<>> THEN r.str ELSE sql

\* _is_ddl(sql)
is_ddl(sql) ==
    StartsWithAny(Upper(Strip(sql)),
                  { <<"C","R","E","A","T","E"," ">>,
                    <<"D","R","O","P"," ">>,
                    <<"A","L","T","E","R"," ">> })

\* execute_sql: commands = [c.strip() for c in sql.split(";") if c.strip()]
commands(sql) == SelectSeq([i \in 1..Len(Split(sql, ";")) |-> Strip(Split(sql, ";")[i])],
                           LAMBDA c : c # <<>>)

\* the database takes a command for a CREATE, DROP or ALTER statement
DdlCommand(c) ==
    \E w \in { <<"C","R","E","A","T","E">>, <<"D","R","O","P">>, <<"A","L","T","E","R">> } :
        /\ StartsWith(Upper(c), w)
        /\ Len(c) > Len(w)
        /\ IsSpace(c[Len(w) + 1])

\* the statement holds a CREATE, DROP or ALTER command
ContainsDdl(sql) == \E i \in 1..Len(commands(sql)) : DdlCommand(commands(sql)[i])

\* the database can run every command of the statement
RunsOnDatabase(sql) ==
    /\ commands(sql) # <<>>
    /\ \A i \in 1..Len(commands(sql)) : StartsWithAny(Upper(commands(sql)[i]), keywords)

\* what update_schema_context builds for the whole database
RECURSIVE SchemaText(_, _)
SchemaText(db, i) ==
    IF i > Len(db) THEN <<>> ELSE TableText(db[i]) \o SchemaText(db, i + 1)

RECURSIVE DynamicSchemaMap(_, _)
DynamicSchemaMap(db, i) ==
    IF i = 0 THEN EmptyMap
    ELSE SetItem(DynamicSchemaMap(db, i - 1), db[i].name, PlainList(col_names(db[i])))

\* faulty variant: the strict handler runs whatever the user confirmed
StrictAccepts_Always(validation) == TRUE

\* _handle_strict: validate_sql_schema(sql, config.SCHEMA_MAP) returned true
StrictAccepts(validation) == validation.verdict

---------------------------------------------------------------------------
(* Inputs of the shell *)

\* what the model answers, and what the user types as raw SQL
Responses ==
    { <<"S","E","L","E","C","T"," ","x">>,
      <<"D","R","O","P"," ","x">>,
      <<"S","E","L","E","C","T"," ","x",";","D","R","O","P"," ","x">>,
      <<"C","L","A","R","I","F","I","C","A","T","I","O","N","_","N","E","E",
        "D","E","D",":"," ","x">>,
      <<"S","C","H","E","M","A","_","A","N","S","W","E","R",":"," ","x">>,
      <<"x">>,
      <<"S","E","L","E","C","T"," ","x",",","S","U","M","(","x",")"," ","F",
        "R","O","M"," ","t">>,
      CLARIFICATION_NEEDED \o <<" ">> \o Fence \o <<"D","R","O","P"," ","x">> \o Fence }

\* the functions of the shell on these inputs, computed once:
\* mindsql_start(messages) for each answer of the model
Generated == [r \in Responses |-> mindsql_start(r)]

\* _handle_strict, _handle_export: sql = extract_sql(sql) or sql
GeneratedSql == [r \in Responses |-> extract_or(Generated[r])]

\* _handle_ans: sql = extract_sql(full)
SuggestedSql == [r \in Responses |-> extract_sql(r)]

\* the statements that can be passed to execute_sql
Sqls ==
    UNION { {Generated[r], GeneratedSql[r], Strip(r)}
            \cup (IF SuggestedSql[r].kind = "str" THEN {SuggestedSql[r].str} ELSE {}) :
            r \in Responses }

\* what the shell and the database make of each of them
Facts ==
    [q \in Sqls |-> [is_ddl |-> is_ddl(q),
                     contains_ddl |-> ContainsDdl(q),
                     runs |-> RunsOnDatabase(q),
                     plot_ok |-> validate_plot_sql(q),
                     fast_pass |-> FastPass([text |-> q])]]

\* the tables sql_metadata finds in a statement of the model
ParserTables == { <<"users">>, <<"ghost">> }

\* how a call of update_schema_context ends
SyncOutcomes == {"returned", "inspector raised", "write raised"}

---------------------------------------------------------------------------
(* The shell's state machine *)

InitShell ==
    /\ database \in Databases
    /\ SCHEMA_MAP = EmptyMap
    /\ map_object = 0
    /\ schema_file = <<>>
    /\ IdleShell
    /\ IdleSession
    /\ IdleComplete
    /\ IdleSync
    /\ IdleExtract
    /\ IdleValidate
    /\ IdlePlot

\* the handler returns (or the shell's except clause reports): the shell
\* reads the next command
BackToPrompt(out) ==
    /\ shell_pc' = "prompt"
    /\ attempt' = 0
    /\ shell_out' = out
    /\ feedback' = IF shell_pc = "prompt" THEN 0 ELSE feedback

\* faulty variant: range(config.MAX_RETRIES + 1)
range_OneMore(n) == 0..n

\* range(n)
range(n) == 0..(n - 1)

\* continue, or the except clause of _handle_ans: before it,
\* if attempt < config.MAX_RETRIES - 1: msgs[1]["content"] += "ERROR ...";
\* then the next pass of for attempt in range(config.MAX_RETRIES), if there
\* is one
Retry(out) ==
    /\ feedback' = IF attempt < MAX_RETRIES - 1 THEN feedback + 1 ELSE feedback
    /\ shell_pc' = IF attempt + 1 \in range(MAX_RETRIES) THEN shell_pc ELSE "prompt"
    /\ attempt' = IF attempt + 1 \in range(MAX_RETRIES) THEN attempt + 1 ELSE 0
    /\ shell_out' = out

\* the handler returns without running anything
ReturnOnly(out) ==
    /\ BackToPrompt(out)
    /\ UNCHANGED <<configVars, engine, executed, ddl_pending>>

\* no call of validate_sql_schema precedes the call of execute_sql
NotValidated ==
    [called |-> FALSE, sql |-> <<>>, map |-> EmptyMap, attempt |-> 0, verdict |-> FALSE]

\* validate_sql_schema(sql, config.SCHEMA_MAP) in pass `attempt`, the parser
\* finding `tables` in the statement
Validation(sql, tables) ==
    [called |-> TRUE,
     sql |-> sql,
     map |-> SCHEMA_MAP,
     attempt |-> attempt,
     verdict |-> IF Facts[sql].fast_pass THEN TRUE
                 ELSE ValidateParsed([text |-> sql, tables |-> tables,
                                      columns |-> <<>>, parse |-> "ok"],
                                     SCHEMA_MAP).ret]

\* update_schema_context(engine) as a whole, against database db, ending as
\* sync says ("not called": it is not called)
Refresh(db, map, file, sync) ==
    /\ SCHEMA_MAP' = IF sync = "returned"
                     THEN update(clear(map), DynamicSchemaMap(db, Len(db)))
                     ELSE map
    /\ schema_file' = CASE sync = "returned" -> open_w(file) \o SchemaText(db, 1)
                        [] sync = "write raised" -> open_w(file)
                        [] OTHER -> file

\* execute_sql(engine, sql, ...) and what the handler does after it:
\* raise_error is the argument of that name (the handler catches what is
\* raised and retries), refreshes says that the handler goes on with
\* if _is_ddl(sql): update_schema_context(engine)
RunSql(handler, sql, ai_text, validation, confirmed, raise_error, refreshes) ==
    \E outcome \in (IF Facts[sql].runs THEN {"ok", "error"} ELSE {"error"}) :
    \E db \in (IF outcome = "ok" /\ Facts[sql].contains_ddl THEN Databases \ {database}
                                                           ELSE {database}) :
    \E sync \in (IF refreshes /\ Facts[sql].is_ddl /\ (outcome = "ok" \/ ~raise_error)
                 THEN SyncOutcomes ELSE {"not called"}) :
        /\ database' = db
        /\ Refresh(db, SCHEMA_MAP, schema_file, sync)
        /\ executed' = [handler |-> handler,
                        sql |-> sql,
                        response |-> ai_text,
                        confirmed |-> confirmed,
                        validation |-> validation,
                        attempt |-> attempt,
                        map |-> SCHEMA_MAP,
                        outcome |-> outcome,
                        refresh |-> sync]
        /\ ddl_pending' = IF sync # "not called" THEN FALSE
                          ELSE ddl_pending \/ (outcome = "ok" /\ Facts[sql].contains_ddl)
        /\ IF raise_error /\ (outcome = "error" \/ sync \in {"inspector raised", "write raised"})
           THEN Retry("failed")
           ELSE BackToPrompt(IF sync \in {"inspector raised", "write raised"} THEN "error"
                             ELSE IF outcome = "ok" THEN "executed" ELSE "sql error")
        /\ UNCHANGED <<map_object, engine>>

\* mindsql connect <url>, the guided connect, mindsql use <db>, the
\* auto-reconnect: perform_connection, then update_schema_context
Connect ==
    /\ shell_pc = "prompt"
    /\ map_object < MaxConnects
    /\ \E connected \in BOOLEAN : \E sync \in (IF connected THEN SyncOutcomes ELSE {"not called"}) :
          IF ~connected
          THEN /\ shell_out # "connection failed"
               /\ ReturnOnly("connection failed")
          ELSE /\ engine' = "engine"
               /\ map_object' = map_object + 1
               /\ Refresh(database,
                          load_schema_map(database),
                          IF get_table_names(database) = <<>> THEN schema_file
                          ELSE write_schema_file(database, 1),
                          sync)
               /\ ddl_pending' = FALSE
               /\ BackToPrompt(IF sync = "returned" THEN "connected" ELSE "error")
               /\ UNCHANGED <<database, executed>>
    /\ model_calls' = 0
    /\ UNCHANGED <<pureVars, syncVars, sessionVars>>

\* mindsql <question>, mindsql_ans <question>, mindsql_plot <request>: the
\* handler is entered
StartHandler ==
    /\ shell_pc = "prompt"
    /\ engine = "engine"
    /\ \E handler \in {"strict", "ans", "plot"} : shell_pc' = handler
    /\ attempt' = 0
    /\ shell_out' = "generating"
    /\ model_calls' = 0
    /\ feedback' = 0
    /\ UNCHANGED <<configVars, engine, executed, ddl_pending>>
    /\ UNCHANGED <<pureVars, syncVars, sessionVars>>

\* one pass of the loop of _handle_strict
StrictAttempt ==
    /\ shell_pc = "strict"
    /\ model_calls' = model_calls + 1
    /\ \E ai_text \in Responses, answer \in {"y", "n"}, tables \in ParserTables :
          LET generated == Generated[ai_text]
              sql == GeneratedSql[ai_text]
              validation == Validation(sql, tables)
          IN  IF StartsWith(generated, CLARIFICATION_NEEDED) THEN ReturnOnly("clarification needed")
              ELSE IF StartsWith(generated, SCHEMA_ANSWER) THEN ReturnOnly("schema answer")
              ELSE IF answer # "y" THEN ReturnOnly("declined")
              ELSE IF ~StrictAccepts(validation)
                   THEN /\ Retry("schema validation failed")
                        /\ UNCHANGED <<configVars, engine, executed, ddl_pending>>
              ELSE RunSql("strict", sql, ai_text, validation, TRUE, FALSE, TRUE)
    /\ UNCHANGED <<pureVars, syncVars, sessionVars>>

\* one pass of the loop of _handle_ans
AnsAttempt ==
    /\ shell_pc = "ans"
    /\ model_calls' = model_calls + 1
    /\ \E full \in Responses, answer \in {"y", "n"} :
          LET sql == SuggestedSql[full]
          IN  IF StartsWith(full, SCHEMA_ANSWER) THEN ReturnOnly("schema answer")
              ELSE IF ~(sql.kind = "str" /\ sql.str # <<>>) THEN ReturnOnly("answered")
              ELSE IF answer # "y" THEN ReturnOnly("declined")
              ELSE RunSql("ans", sql.str, full, NotValidated, TRUE, TRUE, TRUE)
    /\ UNCHANGED <<pureVars, syncVars, sessionVars>>

\* one pass of the loop of _handle_plot
PlotAttempt ==
    /\ shell_pc = "plot"
    /\ model_calls' = model_calls + 1
    /\ \E ai_text \in Responses :
          LET sql == Generated[ai_text]
          IN  IF StartsWith(sql, CLARIFICATION_NEEDED) THEN ReturnOnly("clarification needed")
              ELSE IF ~Facts[sql].plot_ok
                   THEN /\ Retry("plot rejected")
                        /\ UNCHANGED <<configVars, engine, executed, ddl_pending>>
              ELSE RunSql("plot", sql, ai_text, NotValidated, FALSE, FALSE, FALSE)
    /\ UNCHANGED <<pureVars, syncVars, sessionVars>>

\* mindsql_export <question>: _handle_export
Export ==
    /\ shell_pc = "prompt"
    /\ engine = "engine"
    /\ \E ai_text \in Responses, answer \in {"y", "n"} :
          LET sql == GeneratedSql[ai_text]
          IN  IF answer # "y"
              THEN /\ shell_out # "declined"
                   /\ ReturnOnly("declined")
              ELSE RunSql("export", sql, ai_text, NotValidated, TRUE, FALSE, FALSE)
    /\ model_calls' = 0
    /\ UNCHANGED <<pureVars, syncVars, sessionVars>>

\* anything else typed at the prompt: execute_sql(engine, raw)
RawSql ==
    /\ shell_pc = "prompt"
    /\ engine = "engine"
    /\ \E raw \in Responses :
          RunSql("raw", Strip(raw), raw, NotValidated, TRUE, FALSE, FALSE)
    /\ model_calls' = 0
    /\ UNCHANGED <<pureVars, syncVars, sessionVars>>

NextShell ==
    \/ Connect
    \/ StartHandler
    \/ StrictAttempt
    \/ AnsAttempt
    \/ PlotAttempt
    \/ Export
    \/ RawSql

SpecShell == InitShell /\ [][NextShell]_vars

---------------------------------------------------------------------------
(* Connecting: perform_connection and its callers *)

\* the connection strings the user gives, and the database behind each
Urls == {"shop", "crm", "new"}

Content(url) ==
    CASE url = "shop" -> <<UsersTable, OrdersTable>>
      [] url = "crm" -> <<ItemsTable, UsersAltered>>
      [] OTHER -> <<>>

\* the statement of perform_connection that raises ("return": none does)
Stages == {"create_engine", "_write_schema_file", "save_file", "load_schema_map", "return"}

\* what _write_schema_file leaves in the file when it raises: open raises
\* (the file is as it was), or the inspector raises at a table (the file holds
\* the tables before it)
PartlyWritten(db, file) ==
    {file} \cup { open_w(file) \o write_schema_file(SubSeq(db, 1, k), 1) :
                    k \in 0..(Len(db) - 1) }

\* what save_file(filename, content) leaves in the file when it raises: open
\* raises, or write raises after the file was truncated
save_file(file, content) == {file, ""}

\* perform_connection(connection_string) raising at `stage`, with the files
\* and the map as given: the engine it returns (None from the except
\* clause), the files and the binding of config.SCHEMA_MAP it leaves
perform_connection(connection_string, stage, file, url_file, map) ==
    LET db == Content(connection_string)
        written == IF get_table_names(db) = <<>> THEN file
                   ELSE open_w(file) \o write_schema_file(db, 1)
    IN  CASE stage = "create_engine" ->
               { [engine |-> "None", schema_file |-> file, db_url_file |-> url_file,
                  SCHEMA_MAP |-> map] }
          [] stage = "_write_schema_file" ->
               { [engine |-> "None", schema_file |-> f, db_url_file |-> url_file,
                  SCHEMA_MAP |-> map] :
                 f \in IF get_table_names(db) = <<>> THEN {} ELSE PartlyWritten(db, file) }
          [] stage = "save_file" ->
               { [engine |-> "None", schema_file |-> written, db_url_file |-> u,
                  SCHEMA_MAP |-> map] : u \in save_file(url_file, connection_string) }
          [] stage = "load_schema_map" ->
               { [engine |-> "None", schema_file |-> written,
                  db_url_file |-> connection_string, SCHEMA_MAP |-> map] }
          [] OTHER ->
               { [engine |-> connection_string, schema_file |-> written,
                  db_url_file |-> connection_string, SCHEMA_MAP |-> load_schema_map(db)] }

InitConnect ==
    /\ IdleConfig
    /\ IdleSession
    /\ IdleComplete
    /\ IdleShell
    /\ IdleSync
    /\ IdleExtract
    /\ IdleValidate
    /\ IdlePlot

\* the caller of perform_connection: on an engine it calls
\* update_schema_context; assigns_first says that it assigns engine and
\* db_url before that call (mindsql connect <url>) and not only with what
\* the helper returns (_interactive_connect, _switch_database)
ConnectTo(target, assigns_first) ==
    \E stage \in Stages :
    \E pc \in perform_connection(target, stage, schema_file, db_url_file, SCHEMA_MAP) :
    \E sync \in (IF pc.engine = "None" THEN {"not called"} ELSE SyncOutcomes) :
        LET took == pc.engine # "None" /\ (assigns_first \/ sync = "returned")
        IN  /\ db_url_file' = pc.db_url_file
            /\ map_object' = IF pc.engine = "None" THEN map_object ELSE map_object + 1
            /\ Refresh(Content(target), pc.SCHEMA_MAP, pc.schema_file, sync)
            /\ engine' = IF took THEN pc.engine ELSE engine
            /\ db_url' = IF took THEN target ELSE db_url
            /\ database' = IF took THEN Content(target) ELSE database
            /\ schema_context' = IF sync = "returned" THEN SchemaText(Content(target), 1)
                                                      ELSE schema_context
            /\ shell_out' = CASE pc.engine = "None" -> "connection failed"
                              [] sync = "returned" -> "connected"
                              [] OTHER -> "error"
            /\ UNCHANGED <<shell_pc, attempt, model_calls, feedback, executed, ddl_pending>>
            /\ UNCHANGED <<pureVars, syncVars>>

\* mindsql connect <url>
ConnectUrl ==
    /\ map_object < MaxConnects
    /\ \E target \in Urls : ConnectTo(target, TRUE)

\* mindsql connect: _interactive_connect, which returns (None, None, "")
\* when the user gives no database or the server cannot be reached
InteractiveConnect ==
    /\ map_object < MaxConnects
    /\ \/ \E target \in Urls : ConnectTo(target, FALSE)
       \/ /\ shell_out' = "not connected"
          /\ UNCHANGED <<configVars, sessionVars, engine, shell_pc, attempt, model_calls,
                         feedback, executed, ddl_pending>>
          /\ UNCHANGED <<pureVars, syncVars>>

\* mindsql use <db>: _switch_database
SwitchDatabase ==
    /\ map_object < MaxConnects
    /\ engine # "None"
    /\ \E target \in Urls : ConnectTo(target, FALSE)

NextConnect ==
    \/ ConnectUrl
    \/ InteractiveConnect
    \/ SwitchDatabase

SpecConnect == InitConnect /\ [][NextConnect]_vars

---------------------------------------------------------------------------
(* SQLCompleter.get_completions *)

UpperLetters ==
    <<"A","B","C","D","E","F","G","H","I","J","K","L","M",
      "N","O","P","Q","R","S","T","U","V","W","X","Y","Z">>

LowerLetters ==
    <<"a","b","c","d","e","f","g","h","i","j","k","l","m",
      "n","o","p","q","r","s","t","u","v","w","x","y","z">>

\* str.lower, one character
LowerChar(c) ==
    IF \E i \in 1..26 : UpperLetters[i] = c
    THEN LowerLetters[CHOOSE i \in 1..26 : UpperLetters[i] = c]
    ELSE c

\* str.lower
Lower(s) == [i \in 1..Len(s) |-> LowerChar(s[i])]

\* the class \w of the regular expression
word_char(c) ==
    \/ \E i \in 1..26 : LowerLetters[i] = LowerChar(c)
    \/ c \in {"0","1","2","3","4","5","6","7","8","9","_"}

\* re.findall(r'\b\w+\b', s): the maximal runs of \w characters, in order
RECURSIVE FindWordsFrom(_, _, _)
FindWordsFrom(s, i, cur) ==
    IF i > Len(s) THEN (IF cur = <<>> THEN <<>> ELSE <<cur>>)
    ELSE IF word_char(s[i]) THEN FindWordsFrom(s, i + 1, Append(cur, s[i]))
    ELSE (IF cur = <<>> THEN <<>> ELSE <<cur>>) \o FindWordsFrom(s, i + 1, <<>>)

findall_words(s) == FindWordsFrom(s, 1, <<>>)

\* the length of the run of characters of the class of s[i] that ends at i
RECURSIVE RunBack(_, _, _)
RunBack(s, i, word) ==
    IF i >= 1 /\ ~IsSpace(s[i]) /\ word_char(s[i]) = word
    THEN 1 + RunBack(s, i - 1, word)
    ELSE 0

\* document.get_word_before_cursor() of prompt_toolkit: "" when the text is
\* empty or ends with whitespace, else the run of word characters, or of
\* other characters, that ends at the cursor
get_word_before_cursor(t) ==
    IF t = <<>> \/ IsSpace(t[Len(t)]) THEN <<>>
    ELSE SubSeq(t, Len(t) - RunBack(t, Len(t), word_char(t[Len(t)])) + 1, Len(t))

\* CONTEXT_MAP: the keys, and CONTEXT_MAP[token]
CONTEXT_KEYS ==
    { <<"s","e","l","e","c","t">>, <<"i","n","s","e","r","t">>,
      <<"i","n","t","o">>, <<"u","p","d","a","t","e">>, <<"s","e","t">>,
      <<"d","e","l","e","t","e">>, <<"f","r","o","m">>, <<"j","o","i","n">>,
      <<"w","h","e","r","e">>, <<"b","y">>, <<"o","r","d","e","r">>,
      <<"g","r","o","u","p">>, <<"h","a","v","i","n","g">>,
      <<"b","e","g","i","n">>, <<"c","o","m","m","i","t">>,
      <<"r","o","l","l","b","a","c","k">>,
      <<"s","a","v","e","p","o","i","n","t">>, <<"c","r","e","a","t","e">>,
      <<"d","r","o","p">>, <<"a","l","t","e","r">>, <<"t","a","b","l","e">>,
      <<"a","d","d">>, <<"g","r","a","n","t">>, <<"r","e","v","o","k","e">>,
      <<"o","n">>, <<"w","i","t","h">>, <<"u","n","i","o","n">> }

CONTEXT_MAP(token) ==
    CASE token = <<"s","e","l","e","c","t">> ->
           { <<"F","R","O","M">>, <<"W","H","E","R","E">>,
             <<"G","R","O","U","P"," ","B","Y">>,
             <<"O","R","D","E","R"," ","B","Y">>, <<"L","I","M","I","T">>,
             <<"C","O","U","N","T">>, <<"M","A","X">>, <<"M","I","N">>,
             <<"A","V","G">>, <<"S","U","M">>,
             <<"D","I","S","T","I","N","C","T">>, <<"C","A","S","T">>,
             <<"C","O","A","L","E","S","C","E">> }
      [] token = <<"i","n","s","e","r","t">> ->
           { <<"I","N","T","O">> }
      [] token = <<"i","n","t","o">> ->
           { <<"V","A","L","U","E","S">> }
      [] token = <<"u","p","d","a","t","e">> ->
           { <<"S","E","T">>, <<"W","H","E","R","E">> }
      [] token = <<"s","e","t">> ->
           { <<"W","H","E","R","E">> }
      [] token = <<"d","e","l","e","t","e">> ->
           { <<"F","R","O","M">> }
      [] token = <<"f","r","o","m">> ->
           { <<"J","O","I","N">>, <<"L","E","F","T"," ","J","O","I","N">>,
             <<"R","I","G","H","T"," ","J","O","I","N">>,
             <<"I","N","N","E","R"," ","J","O","I","N">>,
             <<"F","U","L","L"," ","O","U","T","E","R"," ","J","O","I","N">>,
             <<"C","R","O","S","S"," ","J","O","I","N">>,
             <<"W","H","E","R","E">>, <<"G","R","O","U","P"," ","B","Y">>,
             <<"O","R","D","E","R"," ","B","Y">>, <<"L","I","M","I","T">>,
             <<"A","S">> }
      [] token = <<"j","o","i","n">> ->
           { <<"O","N">>, <<"U","S","I","N","G">> }
      [] token = <<"w","h","e","r","e">> ->
           { <<"A","N","D">>, <<"O","R">>, <<"I","N">>, <<"L","I","K","E">>,
             <<"I","L","I","K","E">>, <<"B","E","T","W","E","E","N">>,
             <<"I","S"," ","N","U","L","L">>,
             <<"I","S"," ","N","O","T"," ","N","U","L","L">>,
             <<"E","X","I","S","T","S">>,
             <<"G","R","O","U","P"," ","B","Y">>,
             <<"O","R","D","E","R"," ","B","Y">>, <<"L","I","M","I","T">> }
      [] token = <<"b","y">> ->
           { <<"O","R","D","E","R"," ","B","Y">>, <<"L","I","M","I","T">>,
             <<"D","E","S","C">>, <<"A","S","C">> }
      [] token = <<"o","r","d","e","r">> ->
           { <<"B","Y">> }
      [] token = <<"g","r","o","u","p">> ->
           { <<"B","Y">> }
      [] token = <<"h","a","v","i","n","g">> ->
           { <<"A","N","D">>, <<"O","R">>, <<"C","O","U","N","T">>,
             <<"M","A","X">>, <<"M","I","N">>, <<"A","V","G">>,
             <<"S","U","M">> }
      [] token = <<"b","e","g","i","n">> ->
           { <<"T","R","A","N","S","A","C","T","I","O","N">> }
      [] token = <<"c","o","m","m","i","t">> ->
           { <<"T","R","A","N","S","A","C","T","I","O","N">> }
      [] token = <<"r","o","l","l","b","a","c","k">> ->
           { <<"T","O">>, <<"T","R","A","N","S","A","C","T","I","O","N">> }
      [] token = <<"s","a","v","e","p","o","i","n","t">> ->
           {}
      [] token = <<"c","r","e","a","t","e">> ->
           { <<"T","A","B","L","E">>, <<"D","A","T","A","B","A","S","E">>,
             <<"I","N","D","E","X">>, <<"V","I","E","W">>,
             <<"T","R","I","G","G","E","R">>,
             <<"P","R","O","C","E","D","U","R","E">> }
      [] token = <<"d","r","o","p">> ->
           { <<"T","A","B","L","E">>, <<"D","A","T","A","B","A","S","E">>,
             <<"I","N","D","E","X">>, <<"V","I","E","W">>,
             <<"I","F"," ","E","X","I","S","T","S">> }
      [] token = <<"a","l","t","e","r">> ->
           { <<"T","A","B","L","E">>, <<"C","O","L","U","M","N">> }
      [] token = <<"t","a","b","l","e">> ->
           { <<"A","D","D">>, <<"D","R","O","P">>,
             <<"M","O","D","I","F","Y">>,
             <<"A","L","T","E","R"," ","C","O","L","U","M","N">> }
      [] token = <<"a","d","d">> ->
           { <<"C","O","L","U","M","N">>,
             <<"C","O","N","S","T","R","A","I","N","T">>,
             <<"P","R","I","M","A","R","Y"," ","K","E","Y">>,
             <<"F","O","R","E","I","G","N"," ","K","E","Y">> }
      [] token = <<"g","r","a","n","t">> ->
           { <<"A","L","L"," ","P","R","I","V","I","L","E","G","E","S">>,
             <<"S","E","L","E","C","T">>, <<"I","N","S","E","R","T">>,
             <<"U","P","D","A","T","E">>, <<"D","E","L","E","T","E">>,
             <<"O","N">> }
      [] token = <<"r","e","v","o","k","e">> ->
           { <<"A","L","L"," ","P","R","I","V","I","L","E","G","E","S">>,
             <<"S","E","L","E","C","T">>, <<"I","N","S","E","R","T">>,
             <<"U","P","D","A","T","E">>, <<"D","E","L","E","T","E">>,
             <<"O","N">> }
      [] token = <<"o","n">> ->
           { <<"T","O">>, <<"F","R","O","M">> }
      [] token = <<"w","i","t","h">> ->
           { <<"A","S">> }
      [] token = <<"u","n","i","o","n">> ->
           { <<"A","L","L">> }
      [] OTHER -> {}

ALL_KEYWORDS ==
    { <<"S","E","L","E","C","T">>, <<"I","N","S","E","R","T">>,
      <<"U","P","D","A","T","E">>, <<"D","E","L","E","T","E">>,
      <<"F","R","O","M">>, <<"W","H","E","R","E">>,
      <<"V","A","L","U","E","S">>, <<"S","E","T">>,
      <<"C","R","E","A","T","E">>, <<"D","R","O","P">>,
      <<"A","L","T","E","R">>, <<"T","R","U","N","C","A","T","E">>,
      <<"T","A","B","L","E">>, <<"D","A","T","A","B","A","S","E">>,
      <<"I","N","D","E","X">>, <<"V","I","E","W">>, <<"J","O","I","N">>,
      <<"I","N","N","E","R"," ","J","O","I","N">>,
      <<"L","E","F","T"," ","J","O","I","N">>,
      <<"R","I","G","H","T"," ","J","O","I","N">>,
      <<"F","U","L","L"," ","O","U","T","E","R"," ","J","O","I","N">>,
      <<"O","N">>, <<"U","S","I","N","G">>, <<"U","N","I","O","N">>,
      <<"I","N","T","E","R","S","E","C","T">>, <<"E","X","C","E","P","T">>,
      <<"G","R","O","U","P"," ","B","Y">>,
      <<"O","R","D","E","R"," ","B","Y">>, <<"H","A","V","I","N","G">>,
      <<"L","I","M","I","T">>, <<"O","F","F","S","E","T">>, <<"A","S">>,
      <<"W","I","T","H">>, <<"A","N","D">>, <<"O","R">>, <<"N","O","T">>,
      <<"I","N">>, <<"B","E","T","W","E","E","N">>, <<"L","I","K","E">>,
      <<"I","S"," ","N","U","L","L">>, <<"E","X","I","S","T","S">>,
      <<"B","E","G","I","N">>, <<"C","O","M","M","I","T">>,
      <<"R","O","L","L","B","A","C","K">>,
      <<"S","A","V","E","P","O","I","N","T">>, <<"C","O","U","N","T">>,
      <<"S","U","M">>, <<"A","V","G">>, <<"M","I","N">>, <<"M","A","X">>,
      <<"C","O","A","L","E","S","C","E">>, <<"C","A","S","T">>,
      <<"C","O","N","C","A","T">>, <<"S","U","B","S","T","R","I","N","G">>,
      <<"R","O","U","N","D">>, <<"N","O","W">>,
      <<"C","U","R","R","E","N","T","_","D","A","T","E">>,
      <<"P","R","I","M","A","R","Y"," ","K","E","Y">>,
      <<"F","O","R","E","I","G","N"," ","K","E","Y">>,
      <<"U","N","I","Q","U","E">>, <<"N","O","T"," ","N","U","L","L">>,
      <<"D","E","F","A","U","L","T">>, <<"I","N","T">>,
      <<"V","A","R","C","H","A","R">>, <<"T","E","X","T">>,
      <<"B","O","O","L","E","A","N">>, <<"D","A","T","E">>,
      <<"T","I","M","E","S","T","A","M","P">> }

\* the characters of the names of the tables and columns of the model, and
\* of the keys of a descriptor
Spell(name) ==
    CASE name = "users" -> <<"u","s","e","r","s">>
      [] name = "orders" -> <<"o","r","d","e","r","s">>
      [] name = "id" -> <<"i","d">>
      [] name = "name" -> <<"n","a","m","e">>
      [] name = "user_id" -> <<"u","s","e","r","_","i","d">>
      [] name = "columns" -> <<"c","o","l","u","m","n","s">>
      [] name = "foreign_keys" -> <<"f","o","r","e","i","g","n","_","k","e","y","s">>

\* iterating over a value of the Schema Map: the elements of a list, the keys
\* of a {columns, foreign_keys} dict
Iterate(value) ==
    IF value.shape = "list"
    THEN { Spell(value.columns[i]) : i \in 1..Len(value.columns) }
    ELSE { Spell("columns"), Spell("foreign_keys") }

\* a local variable that no statement has assigned
Unassigned == <<"unassigned">>

\* the generator raises at its first next(), or yields these Completions
\* (their order is that of a set sorted by the frequencies of the history file)
NotAsked == [kind |-> "pending", exc |-> "", suggestions |-> {}]

RaisedError(exc) == [kind |-> "raised", exc |-> exc, suggestions |-> {}]

Yielded(suggestions) == [kind |-> "yielded", exc |-> "", suggestions |-> suggestions]

\* get_completions(document, complete_event), the text before the cursor
\* being t and config.SCHEMA_MAP being map
get_completions(t, map) ==
    LET text_before_cursor == Lower(t)
        word_before_cursor == get_word_before_cursor(t)
        typed_tokens == findall_words(text_before_cursor)
        n == Len(typed_tokens)
        tokens == { typed_tokens[i] : i \in 1..n }
        tables == { k \in DOMAIN map : Spell(k) \in tokens }
        \* A. context-aware keywords
        last_token ==
            IF typed_tokens = <<>> THEN Unassigned
            ELSE IF typed_tokens[n] = Lower(word_before_cursor) /\ n > 1
                 THEN typed_tokens[n - 1]
                 ELSE typed_tokens[n]
        keywords_A ==
            IF typed_tokens = <<>> THEN ALL_KEYWORDS
            ELSE IF last_token \in CONTEXT_KEYS THEN CONTEXT_MAP(last_token)
            ELSE (IF <<"s","e","l","e","c","t">> \in tokens /\ <<"f","r","o","m">> \notin tokens
                  THEN { <<"F","R","O","M">> } ELSE {})
                 \cup ALL_KEYWORDS
        \* B. schema awareness
        active_tables == tables
        keys_B ==
            IF last_token \in { <<"f","r","o","m">>, <<"j","o","i","n">>,
                                <<"u","p","d","a","t","e">>, <<"i","n","t","o">>,
                                <<"t","a","b","l","e">> }
            THEN { Spell(k) : k \in DOMAIN map } ELSE {}
        columns_B ==
            IF \E w \in { <<"s","e","l","e","c","t">>, <<"w","h","e","r","e">>,
                          <<"s","e","t">>, <<"b","y">> } : w \in tokens
            THEN (IF active_tables = {}
                  THEN UNION { Iterate(map[k]) : k \in DOMAIN map }
                  ELSE UNION { Iterate(map[k]) : k \in active_tables })
            ELSE {}
        suggestions == keywords_A \cup keys_B \cup columns_B
        \* C. filter by current typing
        valid_suggestions ==
            { s \in suggestions : StartsWith(Lower(s), Lower(word_before_cursor)) }
    IN  IF last_token = Unassigned
        THEN RaisedError("UnboundLocalError")
        ELSE Yielded(valid_suggestions)

---------------------------------------------------------------------------
(* Inputs and state machine of the completer *)

\* the text before the cursor is a concatenation of at most MaxPieces pieces
MaxPieces == 3

Pieces ==
    { <<"s","e","l","e","c","t">>, <<"F","R","O","M">>, <<"u","s","e","r","s">>,
      <<"s","e">>, <<"i","d">>, <<" ">>, <<"(">> }

Documents == { Flatten(ps) : ps \in UNION { [1..n -> Pieces] : n \in 0..MaxPieces } }

InitComplete ==
    /\ document \in Documents
    /\ completions = NotAsked
    /\ SCHEMA_MAP \in SchemaMaps
    /\ database = <<>>
    /\ map_object = 0
    /\ schema_file = <<>>
    /\ IdleExtract
    /\ IdleValidate
    /\ IdlePlot
    /\ IdleSync
    /\ IdleShell
    /\ IdleSession

\* prompt_toolkit asks for the completions of the document and consumes them
GetCompletions ==
    /\ completions = NotAsked
    /\ completions' = get_completions(document, SCHEMA_MAP)
    /\ UNCHANGED <<document, extractVars, validateVars, plotVars, configVars, syncVars,
                   shellVars, sessionVars>>

NextComplete == GetCompletions

SpecComplete == InitComplete /\ [][NextComplete]_vars

---------------------------------------------------------------------------
(* Vocabulary of the properties *)

Min(S) == CHOOSE x \in S : \A y \in S : x <= y

\* the positions of t at which ``` stands
FenceStarts(t) == { p \in 1..(Len(t) - 2) : SubSeq(t, p, p + 2) = Fence }

\* the positions of t at which an sql-tagged fenced block opens: ```sql in
\* any letter case, with a closing ``` somewhere after the tag
SqlBlockStarts(t) ==
    { i \in 1..(Len(t) - 5) :
        /\ Upper(SubSeq(t, i, i + 5)) = FenceSqlUpper
        /\ \E p \in FenceStarts(t) : p >= i + 6 }

\* the interior of the first sql-tagged block: from its tag to the next ```
FirstSqlBlockInterior(t) ==
    LET i == Min(SqlBlockStarts(t))
        j == Min({ p \in FenceStarts(t) : p >= i + 6 })
    IN  SubSeq(t, i + 6, j - 1)

\* t holds no fenced block: no opening ``` with a closing ``` after it
Unfenced(t) == ~(\E p, q \in FenceStarts(t) : q >= p + 3)

\* s begins with a keyword of the allow-list (in any letter case)
AllowListed(s) == StartsWithAny(Upper(s), keywords)

\* the ';'-separated statements of s: its trimmed, non-empty segments
Statements(s) ==
    LET segs == Split(s, ";")
    IN  SelectSeq([i \in 1..Len(segs) |-> Strip(segs[i])], LAMBDA x : x # <<>>)

\* the sequence q holds only elements that satisfy AllowListed
AllAllowListed(q) == \A i \in 1..Len(q) : AllowListed(q[i])

\* extract_sql has returned / validate_sql_schema has returned
Extracted == ret # Pending

Validated == verdict # "pending"

\* the statement names a table that is no key of the Schema Map
HasUnknownTable ==
    \E i \in 1..Len(sql_code.tables) : sql_code.tables[i] \notin DOMAIN schema_map

\* references the column check skips: function calls and the wildcard
Skipped(ref) == HasTok(ref, "(") \/ HasTok(ref, "*")

\* table.column, and a bare column name
Qualified(ref) == Len(ref) = 3 /\ ref[2] = "." /\ ~Skipped(ref)

Unqualified(ref) == Len(ref) = 1 /\ ~Skipped(ref)

\* the column list of table t of the Schema Map, in either representation
ColumnsOf(t) == { schema_map[t].columns[i] : i \in 1..Len(schema_map[t].columns) }

\* the tables the statement references
ReferencedTables == { sql_code.tables[i] : i \in 1..Len(sql_code.tables) }

\* a qualified reference to a known table whose column that table lacks
BadQualified(ref) ==
    /\ Qualified(ref)
    /\ ref[1] \in DOMAIN schema_map
    /\ ref[3] \notin ColumnsOf(ref[1])

\* an unqualified reference whose name no referenced table holds
BadUnqualified(ref) ==
    /\ Unqualified(ref)
    /\ ~(\E t \in ReferencedTables : ref[1] \in ColumnsOf(t))

ColumnRefs == { sql_code.columns[i] : i \in 1..Len(sql_code.columns) }

\* the parser handled the statement, which is no fast-pass statement, and all
\* its tables are keys of the Schema Map
CheckedColumns ==
    /\ Validated
    /\ ~FastPass(sql_code)
    /\ sql_code.parse = "ok"
    /\ ~HasUnknownTable

\* the parser raises in the course of the validation
ParserFails ==
    \/ sql_code.parse = "tables_raise"
    \/ sql_code.parse = "columns_raise" /\ ~HasUnknownTable

\* the Schema Map holds plain lists of column names only
PlainListMap == \A t \in DOMAIN schema_map : schema_map[t].shape = "list"

\* the same Schema Map with every value as a plain list of its columns
AsPlainLists(map) == [t \in DOMAIN map |-> PlainList(map[t].columns)]

---------------------------------------------------------------------------
(* Properties *)

\* C1: a statement that is no fast-pass statement and references a table that
\* is no key of the Schema Map is rejected, whatever its columns and whatever
\* the representation of the map.
C1_UnknownTableRejected ==
    (Validated /\ ~FastPass(sql_code) /\ HasUnknownTable) => verdict = "False"

C1_Witness ==
    /\ Validated /\ ~FastPass(sql_code) /\ HasUnknownTable
    /\ sql_code.parse = "ok"
    /\ Len(sql_code.tables) = 2
    /\ sql_code.tables[1] \in DOMAIN schema_map
    /\ sql_code.columns = << <<"users", ".", "id">> >>
    /\ verdict = "False"

\* C2 (as claimed): with all tables known, a reference table.column to a
\* known table that lacks the column makes the verdict false, and when every
\* qualified and every other reference is in order the verdict is true.
C2_QualifiedColumns ==
    CheckedColumns =>
        /\ (\E r \in ColumnRefs : BadQualified(r)) => verdict = "False"
        /\ (\A r \in ColumnRefs : ~BadQualified(r) /\ ~BadUnqualified(r))
              => verdict = "True"

\* C2 on Schema Maps of plain lists, the representation in which it holds
C2_QualifiedColumnsPlain == PlainListMap => C2_QualifiedColumns

C4_SqlFenceInterior ==
    (Extracted /\ SqlBlockStarts(text) # {})
        => ret = Str(Strip(FirstSqlBlockInterior(text)))

C4_Witness ==
    /\ Extracted
    /\ SqlBlockStarts(text) # {}
    /\ SubSeq(text, Min(SqlBlockStarts(text)) + 3, Min(SqlBlockStarts(text)) + 6)
          = <<"S", "Q", "L", " ">>
    /\ ret.kind = "str"
    /\ ret.str # <<>>
    /\ ~AllowListed(ret.str)

\* C5: an unfenced text that starts with a statement and whose statements all
\* start with an allow-listed keyword comes back as exactly those trimmed
\* statements, in order, joined by ";\n" and closed by one ";".
C5_AllStatementsKept ==
    (/\ Extracted
     /\ Unfenced(text)
     /\ Strip(Split(text, ";")[1]) # <<>>
     /\ AllAllowListed(Statements(text)))
        => ret = Str(Join(Statements(text), <<";", "\n">>) \o <<";">>)

C5_Witness ==
    /\ Extracted
    /\ Unfenced(text)
    /\ Strip(Split(text, ";")[1]) # <<>>
    /\ AllAllowListed(Statements(text))
    /\ Len(Statements(text)) = 2
    /\ Statements(text)[1] # Statements(text)[2]
    /\ ret.kind = "str"

C7_EveryReturnAllowListed ==
    ret.kind = "str" => AllAllowListed(Statements(ret.str))

\* C7 (amended): every string returned for a text without a fenced block
\* holds only statements that start with a keyword.
C7_RawReturnAllowListed ==
    (ret.kind = "str" /\ Unfenced(text)) => AllAllowListed(Statements(ret.str))

C7_Witness ==
    /\ ret.kind = "str"
    /\ Unfenced(text)
    /\ ~AllAllowListed(Statements(text))
    /\ Len(Statements(ret.str)) >= 1

\* C8 (as claimed): with all tables known, an unqualified reference whose
\* name no referenced table holds makes the verdict false, and when every
\* unqualified name is held by a referenced table (and the qualified
\* references are in order) the verdict is true.
C8_UnqualifiedColumns ==
    CheckedColumns =>
        /\ (\E r \in ColumnRefs : BadUnqualified(r)) => verdict = "False"
        /\ (/\ \E r \in ColumnRefs : Unqualified(r)
            /\ \A r \in ColumnRefs : ~BadUnqualified(r) /\ ~BadQualified(r))
              => verdict = "True"

\* C8 on Schema Maps of plain lists, the representation in which it holds
C8_UnqualifiedColumnsPlain == PlainListMap => C8_UnqualifiedColumns

\* C9 (as claimed): the verdict is the one the same statement gets when
\* every value of the Schema Map is the plain list of its columns.
C9_SameVerdictBothShapes ==
    Validated =>
        (verdict = "True") = validate_sql_schema(sql_code, AsPlainLists(schema_map)).ret

FirstUnknownTable ==
    sql_code.tables[Min({ i \in 1..Len(sql_code.tables) :
                            sql_code.tables[i] \notin DOMAIN schema_map })]

\* the column references of the statement that violate the schema
Offending(ref) == BadQualified(ref) \/ BadUnqualified(ref)

\* the first column reference of the statement that violates the schema
FirstOffendingColumn ==
    sql_code.columns[Min({ i \in 1..Len(sql_code.columns) :
                             Offending(sql_code.columns[i]) })]

\* the parser handled the statement, which is no fast-pass statement
Checked == Validated /\ ~FastPass(sql_code) /\ ~ParserFails

\* C11 (as claimed): the validator always returns a verdict; a true verdict
\* prints nothing, a false verdict prints exactly one diagnostic; a schema
\* violation of a checked statement gives false and the one diagnostic names
\* the offender: the first unknown table if there is one (whatever the
\* columns), else the first column reference that violates the schema; and a
\* diagnostic names nothing but such an offender.
C11_OneDiagnosticNamesOffender ==
    /\ Validated =>
          /\ verdict \in {"True", "False"}
          /\ verdict = "True" => console = <<>>
          /\ verdict = "False" => Len(console) = 1
    /\ Checked =>
          /\ HasUnknownTable => console = <<TableError(FirstUnknownTable)>>
          /\ (~HasUnknownTable /\ \E r \in ColumnRefs : Offending(r))
                => console = <<ColumnError(FirstOffendingColumn)>>
          /\ verdict = "False" =>
                \/ HasUnknownTable
                \/ \E r \in ColumnRefs : Offending(r)

\* C11 on Schema Maps of plain lists, the representation in which it holds
C11_OneDiagnosticNamesOffenderPlain == PlainListMap => C11_OneDiagnosticNamesOffender

\* the part of C11 that holds on every Schema Map: a verdict is always
\* returned, true prints nothing, false prints exactly one diagnostic, and an
\* unknown table is diagnosed before any column
C11_DiagnosticShape ==
    /\ Validated =>
          /\ verdict \in {"True", "False"}
          /\ verdict = "True" => console = <<>>
          /\ verdict = "False" => Len(console) = 1
    /\ (Checked /\ HasUnknownTable) => console = <<TableError(FirstUnknownTable)>>

\* validate_plot_sql has returned
Plotted == plot_ret # "pending"

\* the statement begins with SELECT, in any letter case
BeginsWithSelect == StartsWith(Upper(plot_sql), SELECT)

\* the text between the leading SELECT and the first FROM after it (the end
\* of the statement when there is no FROM), upper-cased
SelectList ==
    LET u == Upper(plot_sql)
        froms == { p \in 7..(Len(u) - 3) : SubSeq(u, p, p + 3) = FROM }
    IN  SubSeq(u, 7, IF froms = {} THEN Len(u) ELSE Min(froms) - 1)

\* the positions of the commas of s
Commas(s) == { i \in 1..Len(s) : s[i] = "," }

\* an aggregate name lies in s behind position c
AggregateBehind(s, c) ==
    \E k \in aggregates : \E p \in (c + 1)..(Len(s) - Len(k) + 1) :
        SubSeq(s, p, p + Len(k) - 1) = k

\* the statements of the three examples
TwoColumnsAggregate ==
    <<"S","E","L","E","C","T"," ","x",",","S","U","M","(","x",")",
      " ","F","R","O","M"," ","t"," ","G","R","O","U","P"," ","B","Y"," ","x",",","x">>

ThreeColumns ==
    <<"S","E","L","E","C","T"," ","x",",","x",",","S","U","M","(","x",")",
      " ","F","R","O","M"," ","t"," ","G","R","O","U","P"," ","B","Y"," ","x",",","x">>

TwoColumnsNoAggregate ==
    <<"S","E","L","E","C","T"," ","S","U","M","(","x",")",",","x",
      " ","F","R","O","M"," ","t">>

TablesOf(db) == { db[i].name : i \in 1..Len(db) }

\* s occurs in the text t
OccursIn(s, t) == \E p \in 1..(Len(t) - Len(s) + 1) : SubSeq(t, p, p + Len(s) - 1) = s

\* the comment of a foreign key: (child_cols) references parent_table(parent_cols)
ForeignKeyComment(fk) ==
    <<"(">> \o CommaJoin(fk.constrained_columns) \o <<") references ">>
    \o <<fk.referred_table>> \o <<"(">> \o CommaJoin(fk.referred_columns) \o <<")">>

\* update_schema_context has just returned / has just raised
Returned == sync_outcome = "returned"

Raised == sync_outcome \in {"inspector raised", "write raised"}

\* C13: when update_schema_context has returned, whatever the Schema Map
\* held when it was entered, the keys of the map are exactly the tables the
\* inspector listed, each value is the plain list of that table's column
\* names in the order the inspector gave them, and the description file
\* holds, for every foreign key of every table, the comment
\* (child_cols) references parent_table(parent_cols).
C13_MapReplaced ==
    returned.kind = "snapshot" =>
        /\ Returned => SCHEMA_MAP = returned.map
        /\ DOMAIN returned.map = TablesOf(returned.db)
        /\ \A i \in 1..Len(returned.db) :
              LET table == returned.db[i]
              IN  /\ returned.map[table.name] =
                        [shape |-> "list",
                         columns |-> [j \in 1..Len(table.columns) |-> table.columns[j].name],
                         foreign_keys |-> <<>>]
                  /\ \A k \in 1..Len(table.fks) :
                        OccursIn(ForeignKeyComment(table.fks[k]), returned.file)

\* the map held a table that is gone and other columns of users; the new
\* database has a foreign key
C13_Witness ==
    /\ Returned
    /\ returned.db = database
    /\ database = <<UsersTable, OrdersTable>>
    /\ "items" \in DOMAIN map_before
    /\ "orders" \notin DOMAIN map_before
    /\ map_before["users"].columns = <<"name", "id", "email">>
    /\ SCHEMA_MAP = returned.map

\* C14: a call of update_schema_context that returns after an earlier call
\* returned against the same database returns the same text and leaves the
\* same description file and an equal Schema Map behind.
C14_Idempotent ==
    [][(sync_pc = "update" /\ returned.kind = "snapshot" /\ returned.db = database)
          => /\ returned'.ret = returned.ret
             /\ returned'.file = returned.file
             /\ returned'.map = returned.map
             /\ schema_file' = returned.file
             /\ SCHEMA_MAP' = returned.map]_vars

C14_Witness ==
    /\ Returned
    /\ returned.again
    /\ returned.db = <<UsersTable, OrdersTable>>
    /\ database = returned.db

\* C15: when update_schema_context has raised (the inspector while listing
\* the tables or reading a table, or the writing of the description file),
\* the Schema Map is what it was when the call was entered.
C15_FailureKeepsMap == Raised => SCHEMA_MAP = map_before

\* the writing of the file raised after the tables were read; the map holds
\* tables, and not those of the database
C15_Witness ==
    /\ sync_outcome = "write raised"
    /\ SCHEMA_MAP # EmptyMap
    /\ SCHEMA_MAP = map_before
    /\ DOMAIN SCHEMA_MAP # TablesOf(database)

C18_OnlySynchronizerWrites ==
    [][/\ map_object' = map_object
       /\ SCHEMA_MAP' # SCHEMA_MAP => sync_pc \in {"clear", "update"}]_vars

\* C18 without perform_connection: every step that is no successful
\* connection leaves the binding alone, and changes the contents only in
\* clear and update
C18_AllButConnectionKeepMap ==
    [][map_object' = map_object =>
          (SCHEMA_MAP' # SCHEMA_MAP => sync_pc \in {"clear", "update"})]_vars

\* execute_sql has been called; by a handler that runs what the model answered
Ran == executed.handler # "none"

RanModelSql == executed.handler \in {"strict", "ans", "plot", "export"}

\* the answer of the model begins with one of the two sentinels
BeginsWithSentinel(ai_text) ==
    StartsWith(ai_text, CLARIFICATION_NEEDED) \/ StartsWith(ai_text, SCHEMA_ANSWER)

\* C17 (as claimed): when the shell reads the next command, no CREATE, DROP
\* or ALTER has been executed successfully without a call of
\* update_schema_context after it, on whatever path it was executed.
C17_RefreshAfterDdl == shell_pc = "prompt" => ~ddl_pending

\* C17 on the paths on which it holds: the strict and the answer handler,
\* for a statement whose text starts with the DDL keyword and a space
C17_RefreshAfterLeadingDdl ==
    (/\ shell_pc = "prompt"
     /\ executed.handler \in {"strict", "ans"}
     /\ executed.outcome = "ok"
     /\ Facts[executed.sql].is_ddl)
        => ~ddl_pending

\* C19: the strict handler passes a text to execute_sql only after the user
\* confirmed and validate_sql_schema returned true, in the same pass of the
\* loop, for that very text against the Schema Map as it is at the call; so
\* a rejected text is not executed, in the last pass either.
C19_StrictRunsValidatedOnly ==
    executed.handler = "strict" =>
        /\ executed.confirmed
        /\ executed.validation.called
        /\ executed.validation.verdict
        /\ executed.validation.sql = executed.sql
        /\ executed.validation.map = executed.map
        /\ executed.validation.attempt = executed.attempt

\* a statement that goes through the table check is executed in the last
\* pass, after two rejections
C19_Witness ==
    /\ executed.handler = "strict"
    /\ executed.attempt = MAX_RETRIES - 1
    /\ ~Facts[executed.sql].fast_pass
    /\ executed.map # EmptyMap
    /\ executed.outcome = "ok"

\* C20 (as claimed): no handler passes to execute_sql what it made of an
\* answer of the model that begins with CLARIFICATION_NEEDED: or
\* SCHEMA_ANSWER:.
C20_SentinelNeverExecuted ==
    RanModelSql => ~BeginsWithSentinel(executed.response)

\* C20 in the handlers in which it holds: strict and plot
C20_SentinelNeverExecutedStrictPlot ==
    executed.handler \in {"strict", "plot"} => ~BeginsWithSentinel(executed.response)

---------------------------------------------------------------------------
(* Properties of the raw path of extract_sql *)

\* the statements of s that begin with a keyword of the allow-list, in order
Qualifying(s) == SelectSeq(Statements(s), AllowListed)

\* what the raw path makes of a sequence of statements
Rejoined(q) == Str(Join(q, <<";", "\n">>) \o <<";">>)

\* a character of a word
WordChar(c) ==
    UpperChar(c) \in {"A","B","C","D","E","F","G","H","I","J","K","L","M","N","O",
                      "P","Q","R","S","T","U","V","W","X","Y","Z","_"}

\* the leading token of s: its longest prefix of word characters
RECURSIVE LeadingToken(_)
LeadingToken(s) ==
    IF s = <<>> \/ ~WordChar(Head(s)) THEN <<>>
    ELSE <<Head(s)>> \o LeadingToken(Tail(s))

\* the leading token of s is, upper-cased, a keyword of the allow-list
KeywordToken(s) == Upper(LeadingToken(s)) \in keywords

\* C22 (as claimed): for a text without a fenced block, the statements that
\* begin with an allow-listed keyword all come back, joined by ";\n" and
\* closed by ";", whenever there is one, also behind a first segment of
\* prose; None is returned only when no statement qualifies and the text
\* starts with no keyword.
C22_QualifyingSegmentsKept ==
    (Extracted /\ Unfenced(text)) =>
        /\ Qualifying(text) # <<>> => ret = Rejoined(Qualifying(text))
        /\ ret = None => (Qualifying(text) = <<>> /\ ~AllowListed(Strip(text)))

\* C22 for the texts on which it holds: those that start with a keyword
C22_QualifyingSegmentsKeptBehindKeyword ==
    (Extracted /\ Unfenced(text) /\ AllowListed(Strip(text))) =>
        ret = Rejoined(Qualifying(text))

\* C23 (as claimed): on the raw path a statement survives only if its leading
\* token is a keyword as a whole token, and a text whose first word only
\* begins with the letters of a keyword yields None.
C23_WholeTokenOnly ==
    (Extracted /\ Unfenced(text)) =>
        /\ ret.kind = "str" =>
              \A i \in 1..Len(Statements(ret.str)) : KeywordToken(Statements(ret.str)[i])
        /\ ~KeywordToken(Strip(text)) => ret = None

\* C28: for a text without a fenced block whose trimmed form starts with a
\* keyword, the first ';'-separated segment starts with it as well, so the
\* loop keeps at least one statement: the result holds a statement and ends
\* with ";", and the return of the whole trimmed text is never taken.
C28_FallbackUnreachable ==
    (Extracted /\ Unfenced(text) /\ AllowListed(Strip(text))) =>
        /\ AllowListed(Strip(Split(Strip(text), ";")[1]))
        /\ ret.kind = "str"
        /\ Statements(ret.str) # <<>>
        /\ ret.str[Len(ret.str)] = ";"
        /\ ret = Rejoined(Qualifying(text))

\* a text that starts with a keyword in lower case and ends without ";"
C28_Witness ==
    /\ Extracted
    /\ Unfenced(text)
    /\ AllowListed(Strip(text))
    /\ ~StartsWithAny(Strip(text), keywords)
    /\ text[Len(text)] # ";"
    /\ Len(Split(text, ";")) = 1
    /\ ret.str[Len(ret.str)] = ";"

---------------------------------------------------------------------------
(* Properties of the column check *)

\* a reference table.column whose qualifier is no key of the Schema Map
UnknownQualifier(ref) == Qualified(ref) /\ ref[1] \notin DOMAIN schema_map

\* the statement without its references of that kind
WithoutUnknownQualifiers(sql) ==
    [sql EXCEPT !.columns = SelectSeq(sql.columns, LAMBDA ref : ~UnknownQualifier(ref))]

\* C24: the verdict, and the diagnostic, are those of the same statement
\* without its qualified references whose qualifier is no key of the Schema
\* Map, whatever their column part is.
C24_UnknownQualifierIgnored ==
    Validated =>
        LET r == validate_sql_schema(WithoutUnknownQualifiers(sql_code), schema_map)
        IN  /\ (verdict = "True") = r.ret
            /\ console = r.out

\* a statement on known tables is accepted with a reference u.id, u being no
\* table of the map, next to a reference that is checked
C24_Witness ==
    /\ CheckedColumns
    /\ schema_map # EmptyMap
    /\ PlainListMap
    /\ sql_code.tables = <<"users">>
    /\ sql_code.columns = << <<"u", ".", "id">>, <<"name">> >>
    /\ verdict = "True"

---------------------------------------------------------------------------
(* Properties of the handlers *)

\* a retry loop is running: the next step is a pass that calls the model
InLoop == shell_pc \in {"strict", "ans", "plot"}

\* every value of the map is a plain list of column names
PlainLists(map) == \A t \in DOMAIN map : map[t].shape = "list"

\* C21: a retry loop calls the model at most MAX_RETRIES times for one
\* command: while it runs, fewer than MAX_RETRIES calls have been made (one
\* per pass), and it is left after the pass that makes the last one; an
\* error feedback is appended to the prompt only when a further call follows.
C21_BoundedRetries ==
    /\ model_calls <= MAX_RETRIES
    /\ InLoop => (model_calls = attempt /\ attempt < MAX_RETRIES /\ feedback <= model_calls)
    /\ shell_pc = "prompt" => (IF model_calls = 0 THEN feedback = 0
                                                  ELSE feedback < model_calls)

\* the strict loop is left after its last pass, every pass rejected
C21_Witness ==
    /\ shell_pc = "prompt"
    /\ shell_out = "schema validation failed"
    /\ model_calls = MAX_RETRIES
    /\ feedback = MAX_RETRIES - 1

\* C25 (as claimed): in strict and in answer mode update_schema_context is
\* not called in a pass in which execute_sql failed.
C25_RefreshOnlyAfterSuccess ==
    (executed.handler \in {"strict", "ans"} /\ executed.outcome = "error")
        => executed.refresh = "not called"

\* C25 in the handler in which it holds: answer mode
C25_RefreshOnlyAfterSuccessAns ==
    (executed.handler = "ans" /\ executed.outcome = "error")
        => executed.refresh = "not called"

\* C26 (as claimed): whenever the strict handler can call
\* validate_sql_schema, every value of config.SCHEMA_MAP is a plain list of
\* column names, also after a connection whose update_schema_context raised.
C26_ValidatorSeesPlainLists == shell_pc = "strict" => PlainLists(SCHEMA_MAP)

\* C26 for the connections whose update_schema_context returned, and
\* whatever happens after them
C26_PlainListsAfterReturn ==
    (shell_pc = "prompt" /\ shell_out = "connected") => PlainLists(SCHEMA_MAP)

---------------------------------------------------------------------------
(* Properties of connecting *)

\* the step is a connection attempt in which perform_connection returned no
\* engine
ConnectionFailed == shell_out' = "connection failed"

\* C27 (as claimed): a failed connection or switch leaves the engine, the db
\* URL, the schema context, the Schema Map and the two persisted files as
\* they were.
C27_FailedConnectionChangesNothing ==
    [][ConnectionFailed =>
          UNCHANGED <<engine, db_url, schema_context, SCHEMA_MAP, map_object,
                      schema_file, db_url_file>>]_vars

\* C27 for what is kept: the engine, the db URL, the schema context and the
\* Schema Map
C27_FailedConnectionKeepsSession ==
    [][ConnectionFailed =>
          UNCHANGED <<engine, db_url, schema_context, SCHEMA_MAP, map_object>>]_vars

---------------------------------------------------------------------------
(* Properties of the completer *)

\* the generator was asked for the completions of the document
Completed == completions.kind # "pending"

\* the text before the cursor has no word token
NoWordToken == findall_words(Lower(document)) = <<>>

\* C30: get_completions completes without error for every document and every
\* state of the Schema Map, the documents without a word token before the
\* cursor included: every variable it reads has been assigned.
C30_CompletesWithoutError == Completed => completions.kind = "yielded"

\* C30, for the documents with a word token before the cursor: the generator
\* yields, whatever the Schema Map holds
C30_CompletesWithWordToken ==
    (Completed /\ ~NoWordToken) => completions.kind = "yielded"

\* C30: a document with a word token was completed against a map of
\* descriptors and a column was suggested
C30_Witness ==
    /\ Completed
    /\ ~NoWordToken
    /\ \E t \in DOMAIN SCHEMA_MAP : SCHEMA_MAP[t].shape = "dict"
    /\ Spell("columns") \in completions.suggestions

===========================================================================
